---- MODULE Spec2Model ----
(***************************************************************************)
(* cortex_memory: the file relationship graph (graph.py, FileGraph) and    *)
(* the impact analysis built on it (impact.py, ImpactAnalyzer).            *)
(*                                                                         *)
(* The SQLite database is the record db:                                   *)
(*   files     the rows of table files  [id, path, type]                   *)
(*   file_seq  sqlite_sequence of files (AUTOINCREMENT)                    *)
(*   edges     the rows of table edges  [id, from_file_id, to_file_id,     *)
(*             relationship, weight, metadata]                             *)
(*   edge_seq  sqlite_sequence of edges                                    *)
(* The timestamp columns last_seen and created_at are left out: no query   *)
(* reads them.                                                             *)
(***************************************************************************)
EXTENDS Integers, Sequences, FiniteSets, TLC

VARIABLES
  db,        \* the database
  sent,      \* history: the sum of the weights passed to add_edge, per triple
  nwrites,   \* history: the number of write calls made
  last,      \* history: the latest call of a FileGraph or ImpactAnalyzer method
  call,      \* the arguments [filepath, max_depth] of the traversals
  pc,        \* "idle", or the traversal whose loop is running: "td" or "br"
  queue,     \* the traversal's queue of <<file, depth>>
  visited,   \* the traversal's visited set
  layers,    \* get_blast_radius' layers: depth -> list of files
  expanded,  \* history: the get_dependents lookups of the running call, per file
  td_ret,    \* what _get_transitive_dependents returned
  br_ret,    \* what get_blast_radius returned
  hist       \* SpecStore's record of the write calls made so far

storeVars == <<db, sent, nwrites, hist>>
bfsVars == <<call, pc, queue, visited, layers, expanded, td_ret, br_ret>>
vars == <<db, sent, nwrites, last, call, pc, queue, visited, layers, expanded, td_ret, br_ret,
          hist>>

\* ---------------------------------------------------------------- bounds

\* Write calls made on one store in Spec.
MaxWrites == 2
\* Largest weight argument passed to add_edge.
MaxWeight == 2
\* Largest limit argument passed to get_related_files.
MaxLimit == 2
\* Imports edges of a store the traversals of SpecBFS run on.
MaxImports == 3
\* Largest max_depth argument.
MaxDepth == 3

\* Python's None, SQL's NULL.
NULL == "<None>"

\* Every path the model names; WritePaths are the ones writers use, so the
\* others stay unknown to the store.
Paths == {"a", "b", "c", "d"}
WritePaths == {"a", "b", "c"}
\* Relationship tags stored by writers, and the filters readers pass.
WriteRels == {"imports", "co_changes"}
Rels == WriteRels \cup {"depends_on"}
Filters == Rels \cup {NULL, ""}
Weights == 1..MaxWeight
Limits == 0..MaxLimit
FileTypes == {NULL}
Metas == {NULL}

\* graph.py:157, the default of get_related_files' limit.
DefaultLimit == 20

\* The (from, to, relationship) triples writers can name.
Triples == WritePaths \X WritePaths \X WriteRels
DepthArgs == -1..MaxDepth

\* ------------------------------------------------------------ the database

\* FileGraph._init_db: both tables empty.
EmptyDb == [files |-> {}, file_seq |-> 0, edges |-> {}, edge_seq |-> 0]

\* COALESCE(x, y)
Coalesce(x, y) == IF x # NULL THEN x ELSE y

\* SELECT id FROM files WHERE path = ?  (the set of matching rows)
FileRows(d, filepath) == {f \in d.files : f.path = filepath}

\* row[0] if row else -1
FileId(d, filepath) ==
  IF FileRows(d, filepath) = {} THEN -1
  ELSE (CHOOSE f \in FileRows(d, filepath) : TRUE).id

\* add_file returning cursor.lastrowid, the rowid drawn by the INSERT, in place
\* of the SELECT.
add_file_lastrowid(d, filepath, file_type) ==
  LET rowid == d.file_seq + 1
      hit == {f \in d.files : f.path = filepath}
      files2 == IF hit = {}
                THEN d.files \cup {[id |-> rowid, path |-> filepath, type |-> file_type]}
                ELSE {IF f \in hit THEN [f EXCEPT !.type = Coalesce(file_type, f.type)] ELSE f
                      : f \in d.files}
  IN [db |-> [d EXCEPT !.files = files2, !.file_seq = rowid], ret |-> rowid]

\* add_file with type = COALESCE(type, ?): a stored type is kept.
add_file_type_first_wins(d, filepath, file_type) ==
  LET rowid == d.file_seq + 1
      hit == {f \in d.files : f.path = filepath}
      files2 == IF hit = {}
                THEN d.files \cup {[id |-> rowid, path |-> filepath, type |-> file_type]}
                ELSE {IF f \in hit THEN [f EXCEPT !.type = Coalesce(f.type, file_type)] ELSE f
                      : f \in d.files}
      d2 == [d EXCEPT !.files = files2, !.file_seq = rowid]
  IN [db |-> d2, ret |-> (CHOOSE f \in d2.files : f.path = filepath).id]

\* FileGraph.add_file: INSERT ... ON CONFLICT(path) DO UPDATE SET type =
\* COALESCE(?, type), then SELECT id.  An AUTOINCREMENT table draws a rowid for
\* every INSERT, also for one that ends in DO UPDATE, so file_seq always moves.
add_file(d, filepath, file_type) ==
  LET rowid == d.file_seq + 1
      hit == FileRows(d, filepath)
      files2 == IF hit = {}
                THEN d.files \cup {[id |-> rowid, path |-> filepath, type |-> file_type]}
                ELSE {IF f \in hit THEN [f EXCEPT !.type = Coalesce(file_type, f.type)] ELSE f
                      : f \in d.files}
      d2 == [d EXCEPT !.files = files2, !.file_seq = rowid]
  IN [db |-> d2, ret |-> FileId(d2, filepath)]

\* The UNIQUE (from_file_id, to_file_id, relationship) lookup of the upsert.
EdgeRows(d, from_id, to_id, relationship) ==
  {e \in d.edges : /\ e.from_file_id = from_id
                   /\ e.to_file_id = to_id
                   /\ e.relationship = relationship}

\* add_edge with DO UPDATE SET weight = ? : the new weight replaces the stored one.
add_edge_overwrite(d, from_file, to_file, relationship, weight, metadata) ==
  LET r1 == add_file(d, from_file, NULL)
      r2 == add_file(r1.db, to_file, NULL)
      d2 == r2.db
      rowid == d2.edge_seq + 1
      hit == EdgeRows(d2, r1.ret, r2.ret, relationship)
      edges2 == IF hit = {}
                THEN d2.edges \cup {[id |-> rowid, from_file_id |-> r1.ret,
                                     to_file_id |-> r2.ret, relationship |-> relationship,
                                     weight |-> weight, metadata |-> metadata]}
                ELSE {IF e \in hit
                      THEN [e EXCEPT !.weight = weight,
                                     !.metadata = Coalesce(metadata, e.metadata)]
                      ELSE e : e \in d2.edges}
  IN [d2 EXCEPT !.edges = edges2, !.edge_seq = rowid]

\* add_edge that looks the endpoints up without add_file.
add_edge_no_endpoints(d, from_file, to_file, relationship, weight, metadata) ==
  LET from_id == FileId(d, from_file)
      to_id == FileId(d, to_file)
      rowid == d.edge_seq + 1
      hit == EdgeRows(d, from_id, to_id, relationship)
      edges2 == IF hit = {}
                THEN d.edges \cup {[id |-> rowid, from_file_id |-> from_id,
                                    to_file_id |-> to_id, relationship |-> relationship,
                                    weight |-> weight, metadata |-> metadata]}
                ELSE {IF e \in hit
                      THEN [e EXCEPT !.weight = e.weight + weight,
                                     !.metadata = Coalesce(metadata, e.metadata)]
                      ELSE e : e \in d.edges}
  IN [d EXCEPT !.edges = edges2, !.edge_seq = rowid]

\* add_edge with metadata = COALESCE(metadata, ?): stored metadata is kept.
add_edge_meta_first_wins(d, from_file, to_file, relationship, weight, metadata) ==
  LET r1 == add_file(d, from_file, NULL)
      r2 == add_file(r1.db, to_file, NULL)
      d2 == r2.db
      rowid == d2.edge_seq + 1
      hit == EdgeRows(d2, r1.ret, r2.ret, relationship)
      edges2 == IF hit = {}
                THEN d2.edges \cup {[id |-> rowid, from_file_id |-> r1.ret,
                                     to_file_id |-> r2.ret, relationship |-> relationship,
                                     weight |-> weight, metadata |-> metadata]}
                ELSE {IF e \in hit
                      THEN [e EXCEPT !.weight = e.weight + weight,
                                     !.metadata = Coalesce(e.metadata, metadata)]
                      ELSE e : e \in d2.edges}
  IN [d2 EXCEPT !.edges = edges2, !.edge_seq = rowid]

\* FileGraph.add_edge: both endpoints through add_file, then INSERT ... ON
\* CONFLICT DO UPDATE SET weight = weight + ?, metadata = COALESCE(?, metadata).
add_edge(d, from_file, to_file, relationship, weight, metadata) ==
  LET r1 == add_file(d, from_file, NULL)
      r2 == add_file(r1.db, to_file, NULL)
      d2 == r2.db
      from_id == r1.ret
      to_id == r2.ret
      rowid == d2.edge_seq + 1
      hit == EdgeRows(d2, from_id, to_id, relationship)
      edges2 == IF hit = {}
                THEN d2.edges \cup {[id |-> rowid, from_file_id |-> from_id,
                                     to_file_id |-> to_id, relationship |-> relationship,
                                     weight |-> weight, metadata |-> metadata]}
                ELSE {IF e \in hit
                      THEN [e EXCEPT !.weight = e.weight + weight,
                                     !.metadata = Coalesce(metadata, e.metadata)]
                      ELSE e : e \in d2.edges}
  IN [d2 EXCEPT !.edges = edges2, !.edge_seq = rowid]

\* add_co_changes with the inner loop over files[i:], pairing a file with itself.
RECURSIVE CoChangePairs_from_i(_)
CoChangePairs_from_i(files) ==
  IF Len(files) < 1 THEN <<>>
  ELSE [j \in 1..Len(files) |-> <<files[1], files[j]>>]
       \o CoChangePairs_from_i(Tail(files))

\* The (file_a, file_b) of add_co_changes' two loops, in the order the loops
\* reach them: for i, file_a in enumerate(files): for file_b in files[i+1:].
RECURSIVE CoChangePairs(_)
CoChangePairs(files) ==
  IF Len(files) < 2 THEN <<>>
  ELSE [j \in 1..(Len(files) - 1) |-> <<files[1], files[j + 1]>>]
       \o CoChangePairs(Tail(files))

RECURSIVE AddEdges(_, _)
AddEdges(d, pairs) ==
  IF pairs = <<>> THEN d
  ELSE AddEdges(add_edge(d, pairs[1][1], pairs[1][2], "co_changes", 1, NULL), Tail(pairs))

\* FileGraph.add_co_changes
add_co_changes(d, files) == AddEdges(d, CoChangePairs(files))

\* ------------------------------------------------------------------ readers

\* Python's truth value of an Optional[str]: None and "" are both false.
Truthy(x) == x # NULL /\ x # ""

Min(x, y) == IF x <= y THEN x ELSE y

\* ORDER BY e.weight DESC over rows <<e, f>>: SQL leaves the order of rows of
\* equal weight open, so this is the set of all orders it may return.
RECURSIVE OrderByWeightDesc(_)
OrderByWeightDesc(rows) ==
  IF rows = {} THEN {<<>>}
  ELSE LET top == {x \in rows : \A y \in rows : y[1].weight <= x[1].weight}
       IN UNION {{<<x>> \o s : s \in OrderByWeightDesc(rows \ {x})} : x \in top}

\* LIMIT ?: a negative limit is no limit in SQLite.
SqlLimit(s, limit) == IF limit < 0 THEN s ELSE SubSeq(s, 1, Min(limit, Len(s)))

\* FROM edges e JOIN files f ON ((e.from_file_id = ? AND f.id = e.to_file_id) OR
\* (e.to_file_id = ? AND f.id = e.from_file_id)) [WHERE e.relationship = ?]
RelatedJoin(d, file_id, relationship) ==
  {ef \in d.edges \X d.files :
     /\ \/ (ef[1].from_file_id = file_id /\ ef[2].id = ef[1].to_file_id)
        \/ (ef[1].to_file_id = file_id /\ ef[2].id = ef[1].from_file_id)
     /\ Truthy(relationship) => ef[1].relationship = relationship}

\* SELECT f.path, e.relationship, e.weight, e.metadata
RelatedRow(ef) ==
  [path |-> ef[2].path, relationship |-> ef[1].relationship,
   weight |-> ef[1].weight, metadata |-> ef[1].metadata]

\* FileGraph.get_related_files: the set of lists the call may return.
get_related_files(d, filepath, relationship, limit) ==
  IF FileRows(d, filepath) = {} THEN {<<>>}
  ELSE {[i \in 1..Len(SqlLimit(s, limit)) |-> RelatedRow(s[i])] :
          s \in OrderByWeightDesc(RelatedJoin(d, FileId(d, filepath), relationship))}

\* get_dependents with the join turned round: the files this file imports.
DependentsJoin_reversed(d, file_id) ==
  {ef \in d.edges \X d.files :
     /\ ef[2].id = ef[1].to_file_id
     /\ ef[1].from_file_id = file_id
     /\ ef[1].relationship = "imports"}

\* FROM edges e JOIN files f ON f.id = e.from_file_id
\* WHERE e.to_file_id = ? AND e.relationship = 'imports'
DependentsJoin(d, file_id) ==
  {ef \in d.edges \X d.files :
     /\ ef[2].id = ef[1].from_file_id
     /\ ef[1].to_file_id = file_id
     /\ ef[1].relationship = "imports"}

\* get_dependents without `if not row: return []`: row[0] raises TypeError when
\* the path has no row.
get_dependents_no_guard(d, filepath) ==
  IF FileRows(d, filepath) = {} THEN {<<"raise TypeError">>}
  ELSE {[i \in 1..Len(s) |-> s[i][2].path] :
          s \in OrderByWeightDesc(DependentsJoin(d, FileId(d, filepath)))}

\* FileGraph.get_dependents: the set of lists the call may return.
get_dependents(d, filepath) ==
  IF FileRows(d, filepath) = {} THEN {<<>>}
  ELSE {[i \in 1..Len(s) |-> s[i][2].path] :
          s \in OrderByWeightDesc(DependentsJoin(d, FileId(d, filepath)))}

\* FileGraph.get_dependencies
get_dependencies(d, filepath) ==
  {[i \in 1..Len(related) |-> related[i].path] :
     related \in get_related_files(d, filepath, "imports", DefaultLimit)}

\* FileGraph.get_frequently_changed_together
get_frequently_changed_together(d, filepath, limit) ==
  get_related_files(d, filepath, "co_changes", limit)

\* ------------------------------------------------------------------ writers

\* sent is a history variable: sent[t] is the sum of the weights of all add_edge
\* calls made so far for the triple t = (from, to, relationship); nwrites counts
\* the write calls and last records the latest call.
UpsertFile(filepath, file_type) ==
  /\ nwrites < MaxWrites
  /\ LET r == add_file(db, filepath, file_type)
     IN /\ db' = r.db
        /\ last' = [op |-> "add_file", filepath |-> filepath, ret |-> r.ret]
  /\ nwrites' = nwrites + 1
  /\ UNCHANGED <<sent, hist, bfsVars>>

UpsertEdge(from_file, to_file, relationship, weight, metadata) ==
  /\ nwrites < MaxWrites
  /\ db' = add_edge(db, from_file, to_file, relationship, weight, metadata)
  /\ sent' = [sent EXCEPT ![<<from_file, to_file, relationship>>] = @ + weight]
  /\ last' = [op |-> "add_edge", from_file |-> from_file, to_file |-> to_file,
              relationship |-> relationship, weight |-> weight]
  /\ nwrites' = nwrites + 1
  /\ UNCHANGED <<hist, bfsVars>>

AddCoChanges(files) ==
  /\ nwrites < MaxWrites
  /\ db' = add_co_changes(db, files)
  /\ sent' = [t \in Triples |->
                sent[t] + IF t[3] = "co_changes"
                          THEN Cardinality({ij \in (1..Len(files)) \X (1..Len(files)) :
                                              /\ ij[1] < ij[2]
                                              /\ files[ij[1]] = t[1]
                                              /\ files[ij[2]] = t[2]})
                          ELSE 0]
  /\ last' = [op |-> "add_co_changes", files |-> files]
  /\ nwrites' = nwrites + 1
  /\ UNCHANGED <<hist, bfsVars>>

\* The lists passed to add_co_changes: every list of up to two paths, and every
\* longer list of distinct paths (a commit's file list).
FileLists ==
  {fl \in UNION {[1..n -> WritePaths] : n \in 0..Cardinality(WritePaths)} :
     Len(fl) > 2 => \A i \in 1..Len(fl) : \A j \in 1..Len(fl) : fl[i] = fl[j] => i = j}

\* Nothing recorded: hist is kept by the write calls of SpecStore only.
NoHist == [first_id |-> <<>>, passed |-> {}, upserted |-> {}, meta |-> <<>>,
           first_type |-> <<>>, last_type |-> <<>>]

\* No traversal has been called.
NoRet == [done |-> FALSE]
BfsIdle ==
  /\ pc = "idle"
  /\ queue = <<>>
  /\ visited = {}
  /\ layers = <<>>
  /\ expanded = [f \in Paths |-> 0]
  /\ td_ret = NoRet
  /\ br_ret = NoRet

Init ==
  /\ db = EmptyDb
  /\ sent = [t \in Triples |-> 0]
  /\ nwrites = 0
  /\ hist = NoHist
  /\ last = [op |-> "init"]
  /\ call = [filepath |-> NULL, max_depth |-> 0]
  /\ BfsIdle

Next ==
  \/ \E p \in WritePaths, ft \in FileTypes : UpsertFile(p, ft)
  \/ \E p \in WritePaths, q \in WritePaths, r \in WriteRels, w \in Weights, m \in Metas :
       UpsertEdge(p, q, r, w, m)
  \/ \E fl \in FileLists : AddCoChanges(fl)

Spec == Init /\ [][Next]_vars

\* --------------------------------------- FileGraph: write calls with history

\* Write calls made on one store in SpecStore.
MaxUpserts == 3

\* What the writers of SpecStore pass: two paths, both relationships, weight 1,
\* and file types and metadata that are absent or one of two values.
StorePaths == {"a", "b"}
StoreTypes == {NULL, "py", "js"}
StoreMetas == {NULL, "m1", "m2"}
StoreTriples == StorePaths \X StorePaths \X WriteRels

\* hist when no write call has been made: first_id[p] is what the first
\* add_file(p) returned (0 before it), passed the paths given to add_file or as
\* an endpoint to add_edge, upserted the triples given to add_edge, meta[t] the
\* last metadata other than None given for t, first_type[p] and last_type[p] the
\* first and the last file type other than None given for p.
EmptyHist ==
  [first_id |-> [p \in StorePaths |-> 0], passed |-> {}, upserted |-> {},
   meta |-> [t \in StoreTriples |-> NULL],
   first_type |-> [p \in StorePaths |-> NULL],
   last_type |-> [p \in StorePaths |-> NULL]]

\* FileGraph.get_stats with edges taken as SUM(weight).
get_stats_sum_weight(d) ==
  [files |-> Cardinality(d.files),
   edges |-> Cardinality(UNION {{<<e.id, i>> : i \in 1..e.weight} : e \in d.edges}),
   relationships |-> [r \in {e.relationship : e \in d.edges} |->
                        Cardinality({e \in d.edges : e.relationship = r})]]

\* FileGraph.get_stats, without db_size_kb (the size of the database file).
get_stats(d) ==
  [files |-> Cardinality(d.files),
   edges |-> Cardinality(d.edges),
   relationships |-> [r \in {e.relationship : e \in d.edges} |->
                        Cardinality({e \in d.edges : e.relationship = r})]]

\* FileGraph.add_file is called and returns.
StoreAddFile(filepath, file_type) ==
  /\ nwrites < MaxUpserts
  /\ LET r == add_file(db, filepath, file_type)
     IN /\ db' = r.db
        /\ last' = [op |-> "add_file", filepath |-> filepath, file_type |-> file_type,
                    ret |-> r.ret]
        /\ hist' = [hist EXCEPT !.first_id[filepath] = IF @ = 0 THEN r.ret ELSE @,
                                !.passed = @ \cup {filepath},
                                !.first_type[filepath] = IF @ = NULL THEN file_type ELSE @,
                                !.last_type[filepath] =
                                   IF file_type # NULL THEN file_type ELSE @]
  /\ nwrites' = nwrites + 1
  /\ UNCHANGED <<sent, bfsVars>>

\* FileGraph.add_edge is called and returns.
StoreAddEdge(from_file, to_file, relationship, weight, metadata) ==
  /\ nwrites < MaxUpserts
  /\ db' = add_edge(db, from_file, to_file, relationship, weight, metadata)
  /\ sent' = [sent EXCEPT ![<<from_file, to_file, relationship>>] = @ + weight]
  /\ last' = [op |-> "add_edge", from_file |-> from_file, to_file |-> to_file,
              relationship |-> relationship, weight |-> weight, metadata |-> metadata]
  /\ hist' = [hist EXCEPT !.passed = @ \cup {from_file, to_file},
                          !.upserted = @ \cup {<<from_file, to_file, relationship>>},
                          !.meta[<<from_file, to_file, relationship>>] =
                             IF metadata # NULL THEN metadata ELSE @]
  /\ nwrites' = nwrites + 1
  /\ UNCHANGED bfsVars

\* FileGraph.add_co_changes is called with two files and returns.
StoreAddCoChanges(files) ==
  /\ nwrites < MaxUpserts
  /\ db' = add_co_changes(db, files)
  /\ sent' = [sent EXCEPT ![<<files[1], files[2], "co_changes">>] = @ + 1]
  /\ last' = [op |-> "add_co_changes", files |-> files]
  /\ hist' = [hist EXCEPT !.passed = @ \cup {files[1], files[2]},
                          !.upserted = @ \cup {<<files[1], files[2], "co_changes">>}]
  /\ nwrites' = nwrites + 1
  /\ UNCHANGED bfsVars

InitStore ==
  /\ db = EmptyDb
  /\ sent = [t \in Triples |-> 0]
  /\ nwrites = 0
  /\ hist = EmptyHist
  /\ last = [op |-> "init"]
  /\ call = [filepath |-> NULL, max_depth |-> 0]
  /\ BfsIdle

NextStore ==
  \/ \E p \in StorePaths, ft \in StoreTypes : StoreAddFile(p, ft)
  \/ \E p \in StorePaths, q \in StorePaths, r \in WriteRels, m \in StoreMetas :
       StoreAddEdge(p, q, r, 1, m)
  \/ \E p \in StorePaths, q \in StorePaths : StoreAddCoChanges(<<p, q>>)

SpecStore == InitStore /\ [][NextStore]_vars

\* ----------------------------------------------- ImpactAnalyzer: traversals

\* for dep in dependents: if dep not in visited: queue.append((dep, depth + 1))
RECURSIVE AppendUnvisited(_, _, _, _)
AppendUnvisited(q, dependents, vis, depth) ==
  IF dependents = <<>> THEN q
  ELSE AppendUnvisited(IF dependents[1] \notin vis
                       THEN Append(q, <<dependents[1], depth>>) ELSE q,
                       Tail(dependents), vis, depth)

\* _get_transitive_dependents with get_blast_radius' boundary, depth > max_depth.
TdSkips_gt(current, depth, max_depth, vis) == depth > max_depth \/ current \in vis

\* The two `continue` tests of _get_transitive_dependents' loop.
TdSkips(current, depth, max_depth, vis) == depth >= max_depth \/ current \in vis

\* get_blast_radius with _get_transitive_dependents' boundary, depth >= max_depth.
BrSkips_ge(current, depth, max_depth, vis) == depth >= max_depth \/ current \in vis

\* get_blast_radius without `if current in visited: continue`.
BrSkips_no_visited(current, depth, max_depth, vis) == depth > max_depth

\* The two `continue` tests of get_blast_radius' loop.
BrSkips(current, depth, max_depth, vis) == depth > max_depth \/ current \in vis

\* One iteration of _get_transitive_dependents' while loop on b = [queue,
\* visited]: the set of outcomes, one per order get_dependents may return.
TdIterate(b, d, max_depth) ==
  LET current == b.queue[1][1]
      depth == b.queue[1][2]
      rest == Tail(b.queue)
      vis == b.visited \cup {current}
  IN IF TdSkips(current, depth, max_depth, b.visited)
     THEN {[queue |-> rest, visited |-> b.visited]}
     ELSE {[queue |-> AppendUnvisited(rest, dependents, vis, depth + 1), visited |-> vis] :
             dependents \in get_dependents(d, current)}

\* layers[depth].append(current), creating the list first when depth is new.
LayerAppend(ls, depth, current) ==
  IF depth \in DOMAIN ls
  THEN [ls EXCEPT ![depth] = Append(@, current)]
  ELSE [k \in DOMAIN ls \cup {depth} |-> IF k = depth THEN <<current>> ELSE ls[k]]

\* One iteration of get_blast_radius' while loop on b = [queue, visited, layers].
BrIterate(b, d, max_depth) ==
  LET current == b.queue[1][1]
      depth == b.queue[1][2]
      rest == Tail(b.queue)
      vis == b.visited \cup {current}
      ls == IF depth > 0 THEN LayerAppend(b.layers, depth, current) ELSE b.layers
  IN IF BrSkips(current, depth, max_depth, b.visited)
     THEN {[queue |-> rest, visited |-> b.visited, layers |-> b.layers]}
     ELSE {[queue |-> AppendUnvisited(rest, dependents, vis, depth + 1),
            visited |-> vis, layers |-> ls] :
             dependents \in get_dependents(d, current)}

\* sum(len(files) for files in layers.values())
RECURSIVE SumLayerSizes(_, _)
SumLayerSizes(ls, keys) ==
  IF keys = {} THEN 0
  ELSE LET k == CHOOSE x \in keys : TRUE
       IN Len(ls[k]) + SumLayerSizes(ls, keys \ {k})

\* ImpactAnalyzer._get_transitive_dependents is called: visited = set(),
\* queue = [(filepath, 0)].
TD_Call ==
  /\ pc = "idle"
  /\ td_ret = NoRet
  /\ pc' = "td"
  /\ queue' = <<<<call.filepath, 0>>>>
  /\ visited' = {}
  /\ expanded' = [f \in Paths |-> 0]
  /\ UNCHANGED <<storeVars, last, call, layers, td_ret, br_ret>>

\* One iteration of its while loop.
TD_Step ==
  /\ pc = "td"
  /\ queue # <<>>
  /\ \E b \in TdIterate([queue |-> queue, visited |-> visited], db, call.max_depth) :
       /\ queue' = b.queue
       /\ visited' = b.visited
  /\ expanded' = IF TdSkips(queue[1][1], queue[1][2], call.max_depth, visited)
                 THEN expanded
                 ELSE [expanded EXCEPT ![queue[1][1]] = @ + 1]
  /\ UNCHANGED <<storeVars, last, call, pc, layers, td_ret, br_ret>>

\* _get_transitive_dependents without visited.discard(filepath).
TD_Return_keeps_start ==
  /\ pc = "td"
  /\ queue = <<>>
  /\ td_ret' = [done |-> TRUE, value |-> visited]
  /\ pc' = "idle"
  /\ UNCHANGED <<storeVars, last, call, queue, visited, layers, expanded, br_ret>>

\* The loop is over: visited.discard(filepath); return visited.
TD_Return ==
  /\ pc = "td"
  /\ queue = <<>>
  /\ td_ret' = [done |-> TRUE, value |-> visited \ {call.filepath}]
  /\ pc' = "idle"
  /\ UNCHANGED <<storeVars, last, call, queue, visited, layers, expanded, br_ret>>

\* ImpactAnalyzer.get_blast_radius is called: layers = {}, visited = set(),
\* queue = [(filepath, 0)].
BR_Call ==
  /\ pc = "idle"
  /\ br_ret = NoRet
  /\ pc' = "br"
  /\ queue' = <<<<call.filepath, 0>>>>
  /\ visited' = {}
  /\ layers' = <<>>
  /\ expanded' = [f \in Paths |-> 0]
  /\ UNCHANGED <<storeVars, last, call, td_ret, br_ret>>

\* One iteration of its while loop.
BR_Step ==
  /\ pc = "br"
  /\ queue # <<>>
  /\ \E b \in BrIterate([queue |-> queue, visited |-> visited, layers |-> layers],
                        db, call.max_depth) :
       /\ queue' = b.queue
       /\ visited' = b.visited
       /\ layers' = b.layers
  /\ expanded' = IF BrSkips(queue[1][1], queue[1][2], call.max_depth, visited)
                 THEN expanded
                 ELSE [expanded EXCEPT ![queue[1][1]] = @ + 1]
  /\ UNCHANGED <<storeVars, last, call, pc, td_ret, br_ret>>

\* The loop is over: the report is returned.
BR_Return ==
  /\ pc = "br"
  /\ queue = <<>>
  /\ br_ret' = [done |-> TRUE, file |-> call.filepath, max_depth |-> call.max_depth,
                total_affected |-> SumLayerSizes(layers, DOMAIN layers),
                layers |-> layers]
  /\ pc' = "idle"
  /\ UNCHANGED <<storeVars, last, call, queue, visited, layers, expanded, td_ret>>

\* The stores of SpecBFS: up to MaxImports imports edges of weight 1 between
\* the paths, written by add_edge in some order.  With equal weights
\* get_dependents may return its rows in any order.
ImportEdgeSets == {es \in SUBSET (Paths \X Paths) : Cardinality(es) <= MaxImports}

\* The traversals start at "a": ImportEdgeSets is closed under renaming the
\* paths, so every start is covered, a path unknown to the store included.
StartPaths == {"a"}

RECURSIVE AddImports(_, _)
AddImports(d, es) ==
  IF es = {} THEN d
  ELSE LET e == CHOOSE x \in es : TRUE
       IN AddImports(add_edge(d, e[1], e[2], "imports", 1, NULL), es \ {e})

InitBFS ==
  /\ \E es \in ImportEdgeSets :
       /\ db = AddImports(EmptyDb, es)
       /\ sent = [t \in Triples \cup {<<e[1], e[2], "imports">> : e \in es} |->
                    IF <<t[1], t[2]>> \in es /\ t[3] = "imports" THEN 1 ELSE 0]
       /\ nwrites = Cardinality(es)
  /\ hist = NoHist
  /\ last = [op |-> "init"]
  /\ \E p \in StartPaths, md \in DepthArgs : call = [filepath |-> p, max_depth |-> md]
  /\ BfsIdle

NextBFS == TD_Call \/ TD_Step \/ TD_Return \/ BR_Call \/ BR_Step \/ BR_Return

SpecBFS == InitBFS /\ [][NextBFS]_vars

\* The interpreter keeps running a loop that has an iteration left.
SpecBFSFair == SpecBFS /\ WF_vars(NextBFS)

\* ------------------------------------------------ ImpactAnalyzer: the reports

\* impact.py:34, the default of max_depth.
DefaultMaxDepth == 3
\* impact.py:52, get_frequently_changed_together(filepath, limit=10).
CoChangedLimit == 10

\* The while loop of _get_transitive_dependents run until the queue is empty,
\* from every b in bs: the visited sets it may end with.
RECURSIVE TdRun(_, _, _)
TdRun(bs, d, max_depth) ==
  IF \A b \in bs : b.queue = <<>> THEN {b.visited : b \in bs}
  ELSE TdRun(UNION {IF b.queue = <<>> THEN {b} ELSE TdIterate(b, d, max_depth) : b \in bs},
             d, max_depth)

\* ImpactAnalyzer._get_transitive_dependents: the sets the call may return.
get_transitive_dependents(d, filepath, max_depth) ==
  {vis \ {filepath} :
     vis \in TdRun({[queue |-> <<<<filepath, 0>>>>, visited |-> {}]}, d, max_depth)}

\* impact_score = len(direct) * 10 + len(transitive) * 3 + len(co_changed)
ImpactScore(n_direct, n_transitive, n_co_changed) ==
  n_direct * 10 + n_transitive * 3 + n_co_changed

\* impact_level: the if / elif / else on impact_score, with >= for >.
ImpactLevel_ge(impact_score) ==
  IF impact_score >= 50 THEN "high"
  ELSE IF impact_score >= 20 THEN "medium"
  ELSE "low"

\* impact_level: the if / elif / else on impact_score.
ImpactLevel(impact_score) ==
  IF impact_score > 50 THEN "high"
  ELSE IF impact_score > 20 THEN "medium"
  ELSE "low"

SeqToSet(q) == {q[i] : i \in 1..Len(q)}

\* analyze_file with "transitive": list(transitive), the direct dependents left in.
analyze_file_transitive_whole(d, filepath, max_depth) ==
  {LET impact_score == ImpactScore(Len(direct), Cardinality(transitive), Len(co_changed))
   IN [file |-> filepath,
       impact_level |-> ImpactLevel(impact_score),
       impact_score |-> impact_score,
       direct_dependents |-> Len(direct),
       transitive_dependents |-> Cardinality(transitive),
       co_changed_files |-> Len(co_changed),
       affected_files |->
         [direct |-> direct,
          transitive |-> transitive,
          co_changed |-> [i \in 1..Len(co_changed) |-> co_changed[i].path]]] :
     direct \in get_dependents(d, filepath),
     transitive \in get_transitive_dependents(d, filepath, max_depth),
     co_changed \in get_frequently_changed_together(d, filepath, CoChangedLimit)}

\* analyze_file with "transitive_dependents": len(transitive - set(direct)), the
\* size of the list it reports.
analyze_file_counts_listed(d, filepath, max_depth) ==
  {LET impact_score == ImpactScore(Len(direct), Cardinality(transitive), Len(co_changed))
   IN [file |-> filepath,
       impact_level |-> ImpactLevel(impact_score),
       impact_score |-> impact_score,
       direct_dependents |-> Len(direct),
       transitive_dependents |-> Cardinality(transitive \ SeqToSet(direct)),
       co_changed_files |-> Len(co_changed),
       affected_files |->
         [direct |-> direct,
          transitive |-> transitive \ SeqToSet(direct),
          co_changed |-> [i \in 1..Len(co_changed) |-> co_changed[i].path]]] :
     direct \in get_dependents(d, filepath),
     transitive \in get_transitive_dependents(d, filepath, max_depth),
     co_changed \in get_frequently_changed_together(d, filepath, CoChangedLimit)}

\* ImpactAnalyzer.analyze_file: the reports the call may return.  The list
\* built from the set transitive - set(direct) is kept as that set.
analyze_file(d, filepath, max_depth) ==
  {LET impact_score == ImpactScore(Len(direct), Cardinality(transitive), Len(co_changed))
   IN [file |-> filepath,
       impact_level |-> ImpactLevel(impact_score),
       impact_score |-> impact_score,
       direct_dependents |-> Len(direct),
       transitive_dependents |-> Cardinality(transitive),
       co_changed_files |-> Len(co_changed),
       affected_files |->
         [direct |-> direct,
          transitive |-> transitive \ SeqToSet(direct),
          co_changed |-> [i \in 1..Len(co_changed) |-> co_changed[i].path]]] :
     direct \in get_dependents(d, filepath),
     transitive \in get_transitive_dependents(d, filepath, max_depth),
     co_changed \in get_frequently_changed_together(d, filepath, CoChangedLimit)}

\* results.sort(key=score); results.reverse(): descending, but equal scores end
\* in reverse input order.
RECURSIVE SortByScoreDesc_reversed_ties(_)
SortByScoreDesc_reversed_ties(results) ==
  IF results = <<>> THEN <<>>
  ELSE LET sorted == SortByScoreDesc_reversed_ties(SubSeq(results, 1, Len(results) - 1))
           x == results[Len(results)]
           n == Cardinality({i \in 1..Len(sorted) : sorted[i].impact_score > x.impact_score})
       IN SubSeq(sorted, 1, n) \o <<x>> \o SubSeq(sorted, n + 1, Len(sorted))

\* results.sort(key=lambda x: x["impact_score"], reverse=True): list.sort is
\* stable, also with reverse=True; computed by inserting each report, in list
\* order, behind the reports whose score is not smaller.
RECURSIVE SortByScoreDesc(_)
SortByScoreDesc(results) ==
  IF results = <<>> THEN <<>>
  ELSE LET sorted == SortByScoreDesc(SubSeq(results, 1, Len(results) - 1))
           x == results[Len(results)]
           n == Cardinality({i \in 1..Len(sorted) : sorted[i].impact_score >= x.impact_score})
       IN SubSeq(sorted, 1, n) \o <<x>> \o SubSeq(sorted, n + 1, Len(sorted))

\* compare_impact with break for continue in the except clause: the loop ends
\* at the first file whose analysis raises.
RECURSIVE AnalyzeEach_stops_at_failure(_, _, _, _, _)
AnalyzeEach_stops_at_failure(d, files, max_depth, failing, i) ==
  IF i > Len(files) \/ i \in failing THEN {<<>>}
  ELSE {<<analysis>> \o r :
          analysis \in analyze_file(d, files[i], max_depth),
          r \in AnalyzeEach_stops_at_failure(d, files, max_depth, failing, i + 1)}

\* The loop of compare_impact: the lists `results` may be before the sort, when
\* analyze_file raises for the files at the positions in failing (the except
\* clause logs and continues) and returns for the others.
RECURSIVE AnalyzeEach(_, _, _, _, _)
AnalyzeEach(d, files, max_depth, failing, i) ==
  IF i > Len(files) THEN {<<>>}
  ELSE LET rest == AnalyzeEach(d, files, max_depth, failing, i + 1)
       IN IF i \in failing THEN rest
          ELSE {<<analysis>> \o r : analysis \in analyze_file(d, files[i], max_depth),
                                    r \in rest}

\* ImpactAnalyzer.compare_impact: the lists the call may return.
compare_impact(d, files, max_depth, failing) ==
  {SortByScoreDesc(results) : results \in AnalyzeEach(d, files, max_depth, failing, 1)}

\* ImpactAnalyzer.analyze_file is called and returns.  The analyzer only reads
\* the store, so a call returns what it returns as the first call on that
\* store: a behaviour makes one.
AnalyzeFile(filepath, max_depth) ==
  /\ last.op = "init"
  /\ \E report \in analyze_file(db, filepath, max_depth) :
       last' = [op |-> "analyze_file", filepath |-> filepath, max_depth |-> max_depth,
                ret |-> report]
  /\ UNCHANGED <<storeVars, bfsVars>>

\* ImpactAnalyzer.compare_impact is called and returns; the storage layer makes
\* analyze_file raise at the positions in failing.
CompareImpact(files, max_depth, failing) ==
  /\ last.op = "init"
  /\ \E results \in compare_impact(db, files, max_depth, failing) :
       last' = [op |-> "compare_impact", files |-> files, max_depth |-> max_depth,
                failing |-> failing, ret |-> results]
  /\ UNCHANGED <<storeVars, bfsVars>>

\* Longest list passed to compare_impact.
MaxCompare == 3

\* The lists passed to compare_impact: lists of distinct paths, whose reports
\* can be told apart when the scores are equal, and one path given twice.
CompareLists ==
  {fl \in UNION {[1..n -> Paths] : n \in 0..MaxCompare} :
     \A i \in 1..Len(fl) : \A j \in 1..Len(fl) : fl[i] = fl[j] => i = j}
  \cup {<<p, p>> : p \in Paths}

ImpactDepths == {1, DefaultMaxDepth}

\* The stores of SpecImpact: any of these add_edge calls, made in this order.
\* Up to four files import a (a itself among them), c may import b, and a has up
\* to two co-change edges; the weights into one file differ, so each query has
\* one possible order.
FixtureCalls ==
  << <<"b", "a", "imports", 1>>, <<"c", "a", "imports", 2>>, <<"d", "a", "imports", 3>>,
     <<"a", "a", "imports", 4>>, <<"c", "b", "imports", 1>>,
     <<"a", "b", "co_changes", 1>>, <<"c", "a", "co_changes", 2>> >>

\* One file more than the co-change limit of analyze_file.
HubNeighbours ==
  <<"n01", "n02", "n03", "n04", "n05", "n06", "n07", "n08", "n09", "n10", "n11">>

\* Further stores give a a co-change edge to each of HubNeighbours, so that its
\* co-change rows outnumber the limit.
HubCalls == [i \in 1..Len(HubNeighbours) |-> <<"a", HubNeighbours[i], "co_changes", i + 2>>]

\* The calls of FixtureCalls at the positions in chosen, from position i on.
RECURSIVE ChosenCalls(_, _)
ChosenCalls(chosen, i) ==
  IF i > Len(FixtureCalls) THEN <<>>
  ELSE (IF i \in chosen THEN <<FixtureCalls[i]>> ELSE <<>>) \o ChosenCalls(chosen, i + 1)

RECURSIVE AddCalls(_, _)
AddCalls(d, calls) ==
  IF calls = <<>> THEN d
  ELSE LET c == Head(calls)
       IN AddCalls(add_edge(d, c[1], c[2], c[3], c[4], NULL), Tail(calls))

InitImpact ==
  /\ \E chosen \in SUBSET (1..Len(FixtureCalls)), hub \in BOOLEAN :
       /\ hub => chosen \subseteq {1, 2, 6}
       /\ LET calls == ChosenCalls(chosen, 1) \o (IF hub THEN HubCalls ELSE <<>>)
              made == {<<calls[i][1], calls[i][2], calls[i][3]>> : i \in 1..Len(calls)}
          IN /\ db = AddCalls(EmptyDb, calls)
             /\ sent = [t \in Triples \cup made |->
                          IF t \in made
                          THEN calls[CHOOSE i \in 1..Len(calls) :
                                       <<calls[i][1], calls[i][2], calls[i][3]>> = t][4]
                          ELSE 0]
             /\ nwrites = Len(calls)
  /\ hist = NoHist
  /\ last = [op |-> "init"]
  /\ call = [filepath |-> NULL, max_depth |-> 0]
  /\ BfsIdle

NextImpact ==
  \/ \E p \in Paths, md \in ImpactDepths : AnalyzeFile(p, md)
  \/ \E fl \in CompareLists, md \in ImpactDepths :
       \E failing \in SUBSET (1..Len(fl)) : CompareImpact(fl, md, failing)

SpecImpact == InitImpact /\ [][NextImpact]_vars

\* ------------------------------------------------ the read calls as actions

\* One iteration of get_blast_radius' loop from every b in bs, until every queue
\* is empty: the layers the call may end with.
RECURSIVE BrRun(_, _, _)
BrRun(bs, d, max_depth) ==
  IF \A b \in bs : b.queue = <<>> THEN {b.layers : b \in bs}
  ELSE BrRun(UNION {IF b.queue = <<>> THEN {b} ELSE BrIterate(b, d, max_depth) : b \in bs},
             d, max_depth)

\* ImpactAnalyzer.get_blast_radius: the reports the call may return.
get_blast_radius(d, filepath, max_depth) ==
  {[file |-> filepath, max_depth |-> max_depth,
    total_affected |-> SumLayerSizes(ls, DOMAIN ls), layers |-> ls] :
     ls \in BrRun({[queue |-> <<<<filepath, 0>>>>, visited |-> {}, layers |-> <<>>]},
                  d, max_depth)}

\* The id lookup made through add_file, as add_edge makes it.
LookupId_by_add_file(d, filepath) == add_file(d, filepath, NULL)

\* cursor = conn.execute("SELECT id FROM files WHERE path = ?", (filepath,));
\* row = cursor.fetchone(): the store after the statement and the id found.
LookupId(d, filepath) == [db |-> d, ret |-> FileId(d, filepath)]

\* FileGraph.get_related_files is called and returns.  As for the analyzer's
\* calls, a behaviour makes one read call.
GetRelatedFiles(filepath, relationship, limit) ==
  /\ last.op = "init"
  /\ LET lk == LookupId(db, filepath)
     IN /\ db' = lk.db
        /\ \E ret \in get_related_files(lk.db, filepath, relationship, limit) :
             last' = [op |-> "get_related_files", filepath |-> filepath,
                      relationship |-> relationship, limit |-> limit, ret |-> ret]
  /\ UNCHANGED <<sent, nwrites, hist, bfsVars>>

\* FileGraph.get_dependencies is called and returns.
GetDependencies(filepath) ==
  /\ last.op = "init"
  /\ LET lk == LookupId(db, filepath)
     IN /\ db' = lk.db
        /\ \E ret \in get_dependencies(lk.db, filepath) :
             last' = [op |-> "get_dependencies", filepath |-> filepath, ret |-> ret]
  /\ UNCHANGED <<sent, nwrites, hist, bfsVars>>

\* FileGraph.get_dependents is called and returns.
GetDependents(filepath) ==
  /\ last.op = "init"
  /\ LET lk == LookupId(db, filepath)
     IN /\ db' = lk.db
        /\ \E ret \in get_dependents(lk.db, filepath) :
             last' = [op |-> "get_dependents", filepath |-> filepath, ret |-> ret]
  /\ UNCHANGED <<sent, nwrites, hist, bfsVars>>

\* FileGraph.get_frequently_changed_together is called and returns.
GetFrequentlyChangedTogether(filepath, limit) ==
  /\ last.op = "init"
  /\ LET lk == LookupId(db, filepath)
     IN /\ db' = lk.db
        /\ \E ret \in get_frequently_changed_together(lk.db, filepath, limit) :
             last' = [op |-> "get_frequently_changed_together", filepath |-> filepath,
                      limit |-> limit, ret |-> ret]
  /\ UNCHANGED <<sent, nwrites, hist, bfsVars>>

\* FileGraph.get_stats is called and returns: three SELECT COUNT(*).
GetStats ==
  /\ last.op = "init"
  /\ last' = [op |-> "get_stats", filepath |-> NULL, ret |-> get_stats(db)]
  /\ UNCHANGED <<storeVars, bfsVars>>

\* ImpactAnalyzer.get_blast_radius is called and returns.
GetBlastRadius(filepath, max_depth) ==
  /\ last.op = "init"
  /\ \E ret \in get_blast_radius(db, filepath, max_depth) :
       last' = [op |-> "get_blast_radius", filepath |-> filepath,
                max_depth |-> max_depth, ret |-> ret]
  /\ UNCHANGED <<storeVars, bfsVars>>

\* The limits readers pass: the small ones and the default.
ReadLimits == Limits \cup {DefaultLimit}

NextReads ==
  \/ NextImpact
  \/ \E p \in Paths, r \in Filters, l \in ReadLimits : GetRelatedFiles(p, r, l)
  \/ \E p \in Paths : GetDependencies(p)
  \/ \E p \in Paths : GetDependents(p)
  \/ \E p \in Paths, l \in ReadLimits : GetFrequentlyChangedTogether(p, l)
  \/ GetStats
  \/ \E p \in Paths, md \in ImpactDepths : GetBlastRadius(p, md)

\* The stores of SpecImpact, with every read call of FileGraph and
\* ImpactAnalyzer.
SpecReads == InitImpact /\ [][NextReads]_vars

\* ------------------------------------------------- the store as the spec sees it

\* The edges with their endpoints resolved to paths.
EdgeView(d) ==
  {[from |-> x[2].path, to |-> x[3].path, relationship |-> x[1].relationship,
    weight |-> x[1].weight, metadata |-> x[1].metadata, id |-> x[1].id] :
     x \in {y \in d.edges \X d.files \X d.files :
              y[2].id = y[1].from_file_id /\ y[3].id = y[1].to_file_id}}

\* The rows of the triple t = (from, to, relationship), named by path.
EdgesOf(d, t) ==
  LET from_id == FileId(d, t[1])
      to_id == FileId(d, t[2])
  IN {e \in d.edges : /\ from_id # -1 /\ to_id # -1
                      /\ e.from_file_id = from_id
                      /\ e.to_file_id = to_id
                      /\ e.relationship = t[3]}

\* ------------------------------------------------------------------- claims

\* C1: after any sequence of upsertEdge calls the store holds at most one edge
\* per (from, to, relationship), and its weight is the sum of the weights passed
\* in all upsertEdge calls for that triple (no edge when there was no call).
C1_OneEdgePerTripleWeightIsSum ==
  /\ \A e \in db.edges : \E ff \in db.files, ft \in db.files :
       /\ ff.id = e.from_file_id /\ ft.id = e.to_file_id
       /\ <<ff.path, ft.path, e.relationship>> \in Triples
  /\ \A t \in Triples :
       LET rows == EdgesOf(db, t)
       IN IF sent[t] = 0 THEN rows = {}
          ELSE Cardinality(rows) = 1 /\ \A e \in rows : e.weight = sent[t]

\* upsertEdge(a,b,"imports",1) then upsertEdge(a,b,"imports",2): one edge, weight 3.
C1_Witness ==
  /\ last.op = "add_edge"
  /\ nwrites = 2
  /\ sent[<<"a", "b", "imports">>] = 3
  /\ Cardinality(db.edges) = 1
  /\ \E e \in db.edges : e.weight = 3

\* C2: dependents(path) returns exactly the files f with an edge
\* (f, path, "imports"), each once, in non-increasing weight order; edges of
\* other relationships and imports edges leaving path contribute nothing.
C2_DependentsDirectional ==
  \A path \in Paths : \A res \in get_dependents(db, path) :
    LET importers == {f \in Paths : EdgesOf(db, <<f, path, "imports">>) # {}}
        w(f) == (CHOOSE e \in EdgesOf(db, <<f, path, "imports">>) : TRUE).weight
    IN /\ {res[i] : i \in 1..Len(res)} = importers
       /\ Len(res) = Cardinality(importers)
       /\ \A i \in 1..Len(res) : \A j \in 1..Len(res) : i < j => w(res[i]) >= w(res[j])

\* b is imported by a (weight 1) and by c (weight 2) and imports nothing:
\* dependents(b) = [c, a], dependents(a) = [].
C2_Witness ==
  /\ sent[<<"a", "b", "imports">>] = 1
  /\ sent[<<"c", "b", "imports">>] = 2
  /\ get_dependents(db, "b") = {<<"c", "a">>}
  /\ get_dependents(db, "a") = {<<>>}

\* The edges relatedFiles(path, relationship) is about: path is an endpoint and,
\* when a filter is given, the relationship is the filter's.
IncidentEdges(d, path, relationship) ==
  {e \in EdgeView(d) : /\ e.from = path \/ e.to = path
                       /\ relationship # NULL => e.relationship = relationship}

OtherEnd(e, path) == IF e.from = path THEN e.to ELSE e.from

\* res is what relatedFiles(path, relationship, limit) has to return: one row per
\* incident edge, naming the other endpoint, in non-increasing weight order, cut
\* to the limit rows of highest weight.
RelatedFilesContract(d, path, relationship, limit, res) ==
  LET inc == IncidentEdges(d, path, relationship)
  IN /\ Len(res) = Min(limit, Cardinality(inc))
     /\ \A i \in 1..Len(res) : \A j \in 1..Len(res) :
          i < j => res[i].weight >= res[j].weight
     /\ \E pick \in [1..Len(res) -> inc] :
          /\ \A i \in 1..Len(res) : \A j \in 1..Len(res) : pick[i] = pick[j] => i = j
          /\ \A i \in 1..Len(res) :
               /\ res[i].path = OtherEnd(pick[i], path)
               /\ res[i].relationship = pick[i].relationship
               /\ res[i].weight = pick[i].weight
               /\ res[i].metadata = pick[i].metadata
          /\ \A e \in inc \ {pick[i] : i \in 1..Len(res)} :
               \A i \in 1..Len(res) : e.weight <= res[i].weight

\* C7: relatedFiles(path, relationship, limit) is bidirectional and ordered, for
\* every path, every filter (none, or any relationship string) and every limit.
C7_RelatedFilesBidirectional ==
  \A path \in Paths, relationship \in Filters, limit \in Limits :
    \A res \in get_related_files(db, path, relationship, limit) :
      RelatedFilesContract(db, path, relationship, limit, res)

\* The same with the filter either absent or a non-empty string.
C7_RelatedFilesNonEmptyFilter ==
  \A path \in Paths, relationship \in Filters \ {""}, limit \in Limits :
    \A res \in get_related_files(db, path, relationship, limit) :
      RelatedFilesContract(db, path, relationship, limit, res)

\* C8: addCoChanges(files) issues one upsertEdge(files[i], files[j],
\* "co_changes", 1) per index pair i < j and nothing else: each triple's weight
\* grows by the number of such pairs naming it, no other row changes; on an empty
\* store N distinct paths give exactly the N*(N-1)/2 edges (files[i], files[j])
\* of weight 1, and a list of fewer than two files changes nothing.
PairCount(files, from, to) ==
  Cardinality({ij \in (1..Len(files)) \X (1..Len(files)) :
                 ij[1] < ij[2] /\ files[ij[1]] = from /\ files[ij[2]] = to})

WeightOf(d, t) ==
  IF EdgesOf(d, t) = {} THEN 0 ELSE (CHOOSE e \in EdgesOf(d, t) : TRUE).weight

Distinct(files) ==
  \A i \in 1..Len(files) : \A j \in 1..Len(files) : files[i] = files[j] => i = j

C8_Step ==
  (last'.op = "add_co_changes" /\ nwrites' = nwrites + 1) =>
    LET files == last'.files
        n == Len(files)
    IN /\ \A t \in Triples :
            WeightOf(db', t) = WeightOf(db, t)
                               + (IF t[3] = "co_changes" THEN PairCount(files, t[1], t[2]) ELSE 0)
       /\ Cardinality(db'.edges) = Cardinality(EdgeView(db'))
       /\ n < 2 => db' = db
       /\ (db = EmptyDb /\ Distinct(files)) =>
            /\ 2 * Cardinality(db'.edges) = n * (n - 1)
            /\ {<<e.from, e.to, e.relationship, e.weight>> : e \in EdgeView(db')}
                 = {<<files[ij[1]], files[ij[2]], "co_changes", 1>> :
                      ij \in {x \in (1..n) \X (1..n) : x[1] < x[2]}}

C8_CoChangePairs == [][C8_Step]_vars

\* addCoChanges(["a","b","c"]) on the empty store: (a,b), (a,c), (b,c), weight 1.
C8_Witness ==
  /\ last.op = "add_co_changes"
  /\ last.files = <<"a", "b", "c">>
  /\ nwrites = 1
  /\ {<<e.from, e.to, e.relationship, e.weight>> : e \in EdgeView(db)}
       = {<<"a", "b", "co_changes", 1>>, <<"a", "c", "co_changes", 1>>,
          <<"b", "c", "co_changes", 1>>}

\* ------------------------------------------- distances along dependents steps

\* The files that import f: one dependents step from f.
Importers(d, f) == {g \in Paths : EdgesOf(d, <<g, f, "imports">>) # {}}

\* The files reached from path in at most k dependents steps.
RECURSIVE Within(_, _, _)
Within(d, path, k) ==
  IF k <= 0 THEN {path}
  ELSE LET w == Within(d, path, k - 1)
       IN w \cup UNION {Importers(d, f) : f \in w}

\* The files whose shortest dependents-distance from path is exactly k.
AtDistance(d, path, k) ==
  IF k < 0 THEN {}
  ELSE IF k = 0 THEN {path}
  ELSE Within(d, path, k) \ Within(d, path, k - 1)

\* The files whose shortest dependents-distance from path is in lo..hi.
DistBetween(d, path, lo, hi) == UNION {AtDistance(d, path, k) : k \in lo..hi}

\* C3: transitiveDependents(path, maxDepth) returns exactly the files at
\* shortest dependents-distance 1..maxDepth-1 from path, never path itself; an
\* entry popped with depth >= maxDepth is neither marked visited nor expanded.
C3_Result ==
  td_ret.done =>
    /\ td_ret.value = DistBetween(db, call.filepath, 1, call.max_depth - 1)
    /\ call.filepath \notin td_ret.value

C3_DiscardStep ==
  (pc = "td" /\ queue # <<>> /\ queue[1][2] >= call.max_depth) =>
    (visited' = visited /\ expanded' = expanded)

C3_TransitiveDependents == []C3_Result /\ [][C3_DiscardStep]_vars

\* a is on the imports cycle a <- b <- c <- a; with maxDepth = 2 the call
\* returned {b}: c, at distance 2, and a itself are left out.
C3_Witness ==
  /\ td_ret.done
  /\ call = [filepath |-> "a", max_depth |-> 2]
  /\ Importers(db, "a") = {"b"} /\ Importers(db, "b") = {"c"} /\ Importers(db, "c") = {"a"}
  /\ td_ret.value = {"b"}

\* C4: getBlastRadius(path, maxDepth) puts each file into layers[d] exactly
\* when d is its shortest dependents-distance from path and 1 <= d <= maxDepth:
\* each file in at most one layer and at most once, path in no layer, no key
\* above maxDepth, totalAffected the number of files at distance 1..maxDepth.
C4_BlastRadiusLayers ==
  br_ret.done =>
    LET ls == br_ret.layers
        p == call.filepath
        md == call.max_depth
    IN /\ DOMAIN ls = {k \in 1..md : AtDistance(db, p, k) # {}}
       /\ \A k \in DOMAIN ls :
            /\ {ls[k][i] : i \in 1..Len(ls[k])} = AtDistance(db, p, k)
            /\ Len(ls[k]) = Cardinality(AtDistance(db, p, k))
            /\ \A i \in 1..Len(ls[k]) : ls[k][i] # p
       /\ \A f \in Paths :
            Cardinality({ki \in (DOMAIN ls) \X (1..Cardinality(Paths)) :
                           ki[2] <= Len(ls[ki[1]]) /\ ls[ki[1]][ki[2]] = f}) <= 1
       /\ br_ret.total_affected = Cardinality(DistBetween(db, p, 1, md))

\* The chain a <- b <- c <- d with maxDepth = 2: layers = {1: [b], 2: [c]}.
C4_Witness ==
  /\ br_ret.done
  /\ call = [filepath |-> "a", max_depth |-> 2]
  /\ Importers(db, "a") = {"b"} /\ Importers(db, "b") = {"c"} /\ Importers(db, "c") = {"d"}
  /\ br_ret.layers = <<<<"b">>, <<"c">>>>
  /\ br_ret.total_affected = 2

\* The files get_blast_radius reported, over all layers.
LayerFiles(ls) == UNION {{ls[k][i] : i \in 1..Len(ls[k])} : k \in DOMAIN ls}

\* C5: with the same store, path and maxDepth >= 1, the files getBlastRadius
\* found and transitiveDependents did not are exactly those at distance
\* maxDepth, all in layers[maxDepth]; the files at distance 1..maxDepth-1 are
\* in both; transitiveDependents holds no file getBlastRadius lacks.
C5_DepthBoundaryDiscrepancy ==
  (td_ret.done /\ br_ret.done /\ call.max_depth >= 1) =>
    LET ls == br_ret.layers
        p == call.filepath
        md == call.max_depth
        far == AtDistance(db, p, md)
    IN /\ LayerFiles(ls) \ td_ret.value = far
       /\ far # {} => (md \in DOMAIN ls /\ far = {ls[md][i] : i \in 1..Len(ls[md])})
       /\ DistBetween(db, p, 1, md - 1) \subseteq (td_ret.value \cap LayerFiles(ls))
       /\ td_ret.value \subseteq LayerFiles(ls)

\* The chain a <- b <- c <- d with maxDepth = 2: c is in layers[2] and not in
\* transitiveDependents' result {b}.
C5_Witness ==
  /\ td_ret.done /\ br_ret.done
  /\ call = [filepath |-> "a", max_depth |-> 2]
  /\ Importers(db, "a") = {"b"} /\ Importers(db, "b") = {"c"} /\ Importers(db, "c") = {"d"}
  /\ td_ret.value = {"b"}
  /\ br_ret.layers[2] = <<"c">>

\* C6: on every graph (cycles, mutual edges, self-edges) and for every maxDepth
\* both traversals terminate: a started call returns, its queue empty; and
\* within one call each file is expanded at most once.
C6_ExpandedOnce == \A f \in Paths : expanded[f] <= 1

C6_Termination ==
  /\ []C6_ExpandedOnce
  /\ (pc # "idle") ~> (pc = "idle" /\ queue = <<>>)

\* get_blast_radius returned on a store where a and b import each other and a
\* imports itself, having looked up the dependents of both.
C6_Witness ==
  /\ br_ret.done
  /\ pc = "idle"
  /\ call = [filepath |-> "a", max_depth |-> 3]
  /\ Importers(db, "a") = {"a", "b"} /\ Importers(db, "b") = {"a"}
  /\ expanded["a"] = 1 /\ expanded["b"] = 1

\* ---------------------------------------------------------------- C9 and C10

\* The files within 1..max_depth-1 importer hops of path, path itself left out:
\* transitiveDependents(path, maxDepth) as C3 establishes it.
TransitiveSet(d, path, max_depth) == DistBetween(d, path, 1, max_depth - 1) \ {path}

\* C9: the report of analyze_file(path, maxDepth) carries the score
\* 10 * |dependents(path)| + 3 * |transitiveDependents(path, maxDepth)|
\* + |coChangedWith(path, limit = 10)|, the transitive term counting the whole
\* transitive set, the direct dependents in it included; the level is "high"
\* exactly when the score exceeds 50, "medium" exactly when it exceeds 20 without
\* exceeding 50, and "low" otherwise.
C9_ScoreAndLevel ==
  last.op = "analyze_file" =>
    LET r == last.ret
        nDirect == Cardinality(Importers(db, last.filepath))
        nTransitive == Cardinality(TransitiveSet(db, last.filepath, last.max_depth))
        nCoChanged == Min(10, Cardinality(IncidentEdges(db, last.filepath, "co_changes")))
    IN /\ \E direct \in get_dependents(db, last.filepath) :
          \E co \in get_frequently_changed_together(db, last.filepath, 10) :
            /\ Len(direct) = nDirect
            /\ Len(co) = nCoChanged
            /\ r.affected_files.direct = direct
       /\ get_transitive_dependents(db, last.filepath, last.max_depth)
            = {TransitiveSet(db, last.filepath, last.max_depth)}
       /\ r.impact_score = 10 * nDirect + 3 * nTransitive + nCoChanged
       /\ r.transitive_dependents = nTransitive
       /\ (r.impact_level = "high") <=> (r.impact_score > 50)
       /\ (r.impact_level = "medium") <=> (r.impact_score > 20 /\ r.impact_score <= 50)
       /\ (r.impact_level = "low") <=> (r.impact_score <= 20)
       /\ r.impact_level \in {"high", "medium", "low"}

\* Four direct dependents, three of them also in the transitive set, and one
\* co-changed file: score 50, on the boundary, so the level is "medium".
C9_Witness ==
  /\ last.op = "analyze_file"
  /\ last.ret.direct_dependents = 4
  /\ last.ret.transitive_dependents = 3
  /\ last.ret.affected_files.transitive = {}
  /\ last.ret.co_changed_files = 1
  /\ last.ret.impact_score = 50
  /\ last.ret.impact_level = "medium"

\* C10: compare_impact returns the reports in order of descending score,
\* reports of equal score in the order of their positions in the input; the
\* reports are those of analyze_file for the positions whose analysis did not
\* fail, one each, so one per input position when none fails.
C10_CompareSorted ==
  last.op = "compare_impact" =>
    LET res == last.ret
        files == last.files
        kept == {i \in 1..Len(files) : i \notin last.failing}
    IN /\ Len(res) = Cardinality(kept)
       /\ last.failing = {} => Len(res) = Len(files)
       /\ \A k \in 1..Len(res) : res[k] \in analyze_file(db, res[k].file, last.max_depth)
       /\ \A k1 \in 1..Len(res) : \A k2 \in 1..Len(res) :
            k1 < k2 => res[k1].impact_score >= res[k2].impact_score
       /\ \E pos \in [1..Len(res) -> kept] :
            /\ \A k1 \in 1..Len(res) : \A k2 \in 1..Len(res) :
                 k1 # k2 => pos[k1] # pos[k2]
            /\ \A k \in 1..Len(res) : res[k].file = files[pos[k]]
            /\ \A k1 \in 1..Len(res) : \A k2 \in 1..Len(res) :
                 (k1 < k2 /\ res[k1].impact_score = res[k2].impact_score)
                   => pos[k1] < pos[k2]

\* Three inputs, none failing, given as lowest, highest, middle score with the
\* lowest score shared by no other: they come back highest, middle, lowest.
C10_Witness ==
  /\ last.op = "compare_impact"
  /\ last.failing = {}
  /\ Len(last.files) = 3
  /\ Len(last.ret) = 3
  /\ last.ret[1].file = last.files[2]
  /\ last.ret[2].file = last.files[3]
  /\ last.ret[3].file = last.files[1]
  /\ last.ret[1].impact_score > last.ret[2].impact_score
  /\ last.ret[2].impact_score > last.ret[3].impact_score

\* Two inputs of equal score around one of higher score, none failing: the two
\* keep their input order behind it.
C10_TieWitness ==
  /\ last.op = "compare_impact"
  /\ last.failing = {}
  /\ Len(last.ret) = 3
  /\ last.ret[1].file = last.files[2]
  /\ last.ret[2].file = last.files[1]
  /\ last.ret[3].file = last.files[3]
  /\ last.ret[2].impact_score = last.ret[3].impact_score

\* A path given twice is reported twice.
C10_DuplicateWitness ==
  /\ last.op = "compare_impact"
  /\ last.files = <<"a", "a">>
  /\ Len(last.ret) = 2

\* An analysis that fails leaves its path out of the result.
C10_FailureWitness ==
  /\ last.op = "compare_impact"
  /\ last.failing # {}
  /\ Len(last.ret) = 2
  /\ Len(last.files) = 3

\* The file has more co-change rows than the limit, and the report counts ten.
C9_LimitWitness ==
  /\ last.op = "analyze_file"
  /\ Cardinality(IncidentEdges(db, last.filepath, "co_changes")) > 10
  /\ last.ret.co_changed_files = 10
  /\ last.ret.impact_score = 30
  /\ last.ret.impact_level = "medium"

\* The scores on both sides of the two thresholds are reached.
C9_LowAt20 == last.op = "analyze_file" /\ last.ret.impact_score = 20
C9_MediumAt21 == last.op = "analyze_file" /\ last.ret.impact_score = 21
C9_HighAt51 == last.op = "analyze_file" /\ last.ret.impact_score = 51

\* -------------------------------------------------- C11 to C14: the upserts

\* C11: every add_file(path, ...) returns the id the first add_file(path, ...)
\* returned, with or without a type and whatever calls were made in between; a
\* path never has two file rows, and distinct paths have distinct ids.
C11_UpsertFileIdempotent ==
  /\ last.op = "add_file" =>
       /\ last.ret = hist.first_id[last.filepath]
       /\ last.ret > 0
       /\ \E f \in db.files : f.path = last.filepath /\ f.id = last.ret
  /\ \A f \in db.files : \A g \in db.files : (f.path = g.path \/ f.id = g.id) => f = g
  /\ \A p \in StorePaths :
       hist.first_id[p] # 0 => FileId(db, p) = hist.first_id[p]

\* add_file("a", "py"), add_file("b"), add_file("a"): the third call returns 1
\* again, b has id 2, and there are two file rows.
C11_Witness ==
  /\ nwrites = 3
  /\ last = [op |-> "add_file", filepath |-> "a", file_type |-> NULL, ret |-> 1]
  /\ db.edges = {}
  /\ db.files = {[id |-> 1, path |-> "a", type |-> "py"],
                 [id |-> 2, path |-> "b", type |-> NULL]}

\* C12: every stored edge's from_file_id and to_file_id are ids of file rows,
\* and after add_edge(a, b, r) both a and b have file rows, the edge between
\* them, even if neither was registered before.
C12_EdgeEndpointsExist ==
  /\ \A e \in db.edges :
       /\ \E f \in db.files : f.id = e.from_file_id
       /\ \E f \in db.files : f.id = e.to_file_id
  /\ last.op = "add_edge" =>
       /\ FileRows(db, last.from_file) # {}
       /\ FileRows(db, last.to_file) # {}
       /\ \E e \in db.edges :
            /\ e.from_file_id = FileId(db, last.from_file)
            /\ e.to_file_id = FileId(db, last.to_file)
            /\ e.relationship = last.relationship

\* add_edge("a", "b", "imports") on the empty store.
C12_Witness ==
  /\ nwrites = 1
  /\ last.op = "add_edge" /\ last.from_file = "a" /\ last.to_file = "b"
  /\ {f.path : f \in db.files} = {"a", "b"}
  /\ Cardinality(db.edges) = 1

\* C13: after any sequence of add_edge calls for one triple the stored
\* metadata is the last value other than None that was passed, None if there was
\* none: a call replaces it exactly when it passes one.
C13_MetadataLastNonNull ==
  \A t \in StoreTriples :
    /\ t \in hist.upserted <=> EdgesOf(db, t) # {}
    /\ \A e \in EdgesOf(db, t) : e.metadata = hist.meta[t]

\* Three calls for one triple, the last with None: the metadata is still "m2",
\* the value of a call before it.
C13_Witness ==
  /\ nwrites = 3
  /\ last.op = "add_edge" /\ last.metadata = NULL
  /\ sent[<<last.from_file, last.to_file, last.relationship>>] = 3
  /\ \E e \in db.edges : e.metadata = "m2" /\ e.weight = 3

\* C14: once a file has a type other than None, no later add_file with another
\* type changes it: the stored type is the first one other than None passed.
C14_TypeSetOnce ==
  \A f \in db.files :
    hist.first_type[f.path] # NULL => f.type = hist.first_type[f.path]

\* C14 as the code has it: add_file(path, type) sets the type whenever type is
\* not None and keeps the stored one when it is None (as add_edge passes it), so
\* the stored type is the last one other than None passed.
C14_TypeLastNonNull ==
  /\ \A f \in db.files :
       f.type = (IF f.path \in StorePaths THEN hist.last_type[f.path] ELSE NULL)
  /\ last.op = "add_file" /\ last.file_type # NULL =>
       \A f \in FileRows(db, last.filepath) : f.type = last.file_type

\* add_file("a", "py") then add_file("a", "js"): the type is "js".
C14_Witness ==
  /\ last.op = "add_file" /\ last.filepath = "a" /\ last.file_type = "js"
  /\ hist.first_type["a"] = "py"
  /\ \A f \in FileRows(db, "a") : f.type = "js"
  /\ FileRows(db, "a") # {}

\* ----------------------------------------------------------------- C20: stats

\* C20: get_stats reports as files the number of distinct paths passed to
\* add_file or as an endpoint to add_edge, as edges the number of distinct
\* triples passed to add_edge, and per relationship counts that sum to edges;
\* no write call makes any of the counts smaller.
C20_StatsState ==
  LET st == get_stats(db)
  IN /\ st.files = Cardinality(hist.passed)
     /\ st.edges = Cardinality(hist.upserted)
     /\ \A r \in DOMAIN st.relationships :
          st.relationships[r] = Cardinality({t \in hist.upserted : t[3] = r})
     /\ DOMAIN st.relationships = {t[3] : t \in hist.upserted}
     /\ st.edges = Cardinality({t \in hist.upserted : t[3] = "imports"})
                   + Cardinality({t \in hist.upserted : t[3] = "co_changes"})

C20_StatsStep ==
  LET st == get_stats(db)
      st2 == get_stats(db')
  IN /\ st2.files >= st.files
     /\ st2.edges >= st.edges
     /\ \A r \in DOMAIN st.relationships :
          r \in DOMAIN st2.relationships /\ st2.relationships[r] >= st.relationships[r]

C20_Stats == []C20_StatsState /\ [][C20_StatsStep]_vars

\* Three add_edge calls, two of them for one triple: two files, two edges, one
\* of each relationship.
C20_Witness ==
  /\ nwrites = 3
  /\ \E t \in StoreTriples : sent[t] = 2
  /\ get_stats(db) = [files |-> 2, edges |-> 2,
                      relationships |-> [r \in {"imports", "co_changes"} |-> 1]]

\* ------------------------------------------------- C15 to C17: the read calls

\* The files path imports: the to-ends of the imports edges that leave path.
ImportedBy(d, path) ==
  {e.to : e \in {x \in EdgeView(d) : x.from = path /\ x.relationship = "imports"}}

\* C15: dependencies(path) returns exactly the files path imports, each once,
\* and no file that only imports path.
C15_DependenciesDirectionalOut ==
  last.op = "get_dependencies" =>
    /\ SeqToSet(last.ret) = ImportedBy(db, last.filepath)
    /\ Len(last.ret) = Cardinality(ImportedBy(db, last.filepath))

\* What get_dependencies returns instead: the other end of every imports edge
\* at path, in either direction, one entry per edge (up to the default limit).
C15_DependenciesBothDirections ==
  last.op = "get_dependencies" =>
    LET inc == IncidentEdges(db, last.filepath, "imports")
    IN /\ Len(last.ret) = Min(DefaultLimit, Cardinality(inc))
       /\ SeqToSet(last.ret) = {OtherEnd(e, last.filepath) : e \in inc}

GraphReads ==
  {"get_related_files", "get_dependencies", "get_dependents",
   "get_frequently_changed_together"}

\* C16: for a path without a file row, get_related_files, get_dependencies,
\* get_dependents and get_frequently_changed_together return the empty list,
\* whatever the store holds.
C16_UnknownPathEmpty ==
  (last.op \in GraphReads /\ FileRows(db, last.filepath) = {}) => last.ret = <<>>

\* get_dependents("d") on a store with edges in which d has no row.
C16_Witness ==
  /\ last.op = "get_dependents"
  /\ last.filepath = "d"
  /\ FileRows(db, "d") = {}
  /\ Cardinality(db.edges) >= 3
  /\ last.ret = <<>>

ReadOps ==
  GraphReads \cup {"get_stats", "analyze_file", "compare_impact", "get_blast_radius"}

\* C17: every read call leaves the file rows and the edge rows, weights and
\* metadata included, as they were, also when the path asked about is unknown.
C17_ReadStep ==
  last'.op \in ReadOps => (db'.files = db.files /\ db'.edges = db.edges)

C17_ReadsChangeNothing == [][C17_ReadStep]_vars

\* get_related_files("d") returned on a store with edges where d has no row,
\* and d still has none.
C17_Witness ==
  /\ last.op = "get_related_files"
  /\ last.filepath = "d"
  /\ last.relationship = NULL
  /\ FileRows(db, "d") = {}
  /\ Cardinality(db.edges) >= 3

\* ------------------------------------------------------------- C18 and C19

\* C18: in every report of analyze_file the transitive file set is
\* transitiveDependents(path, maxDepth) without dependents(path): it shares no
\* file with the direct list, and the two together are dependents(path) united
\* with transitiveDependents(path, maxDepth).
C18_TransitiveMinusDirect ==
  last.op = "analyze_file" =>
    LET r == last.ret
        direct == Importers(db, last.filepath)
        transitive == TransitiveSet(db, last.filepath, last.max_depth)
    IN /\ SeqToSet(r.affected_files.direct) = direct
       /\ r.affected_files.transitive = transitive \ direct
       /\ r.affected_files.transitive \cap SeqToSet(r.affected_files.direct) = {}
       /\ r.affected_files.transitive \cup SeqToSet(r.affected_files.direct)
            = direct \cup transitive
       /\ \E ds \in get_dependents(db, last.filepath) :
            \E ts \in get_transitive_dependents(db, last.filepath, last.max_depth) :
              r.affected_files.transitive = ts \ SeqToSet(ds)

\* b imports a and c imports b: with max_depth 3 the transitive set of a is
\* {b, c}, b is direct, and the report lists c alone as transitive.
C18_Witness ==
  /\ last.op = "analyze_file"
  /\ last.filepath = "a"
  /\ last.max_depth = 3
  /\ last.ret.affected_files.direct = <<"b">>
  /\ last.ret.transitive_dependents = 2
  /\ last.ret.affected_files.transitive = {"c"}

\* C19: when analyze_file raises for some of the paths, compare_impact still
\* returns: the reports of exactly the positions whose analysis did not raise,
\* in non-increasing score order.
C19_PartialResults ==
  (last.op = "compare_impact" /\ last.failing # {}) =>
    LET res == last.ret
        files == last.files
        kept == {i \in 1..Len(files) : i \notin last.failing}
    IN /\ Len(res) = Len(files) - Cardinality(last.failing)
       /\ \A p \in Paths :
            Cardinality({k \in 1..Len(res) : res[k].file = p})
              = Cardinality({i \in kept : files[i] = p})
       /\ \A k \in 1..Len(res) : res[k] \in analyze_file(db, res[k].file, last.max_depth)
       /\ \A k \in 1..(Len(res) - 1) : res[k].impact_score >= res[k + 1].impact_score

\* Three paths, the analysis of the first raises: the other two are reported,
\* the third before the second as its score is higher.
C19_Witness ==
  /\ last.op = "compare_impact"
  /\ last.failing = {1}
  /\ Len(last.files) = 3
  /\ Len(last.ret) = 2
  /\ last.ret[1].file = last.files[3]
  /\ last.ret[2].file = last.files[2]
  /\ last.ret[1].impact_score > last.ret[2].impact_score

\* ----------------------------------------------------------------------- C29

\* C29: in every report of analyze_file each count equals the size of the
\* file set reported with it.
C29_CountsMatchSets ==
  last.op = "analyze_file" =>
    /\ last.ret.direct_dependents = Len(last.ret.affected_files.direct)
    /\ last.ret.transitive_dependents = Cardinality(last.ret.affected_files.transitive)
    /\ last.ret.co_changed_files = Len(last.ret.affected_files.co_changed)

\* C29 as the code has it: direct_dependents and co_changed_files are the
\* lengths of the lists reported, transitive_dependents is the size of the whole
\* transitive set, so it exceeds the reported transitive set by the direct
\* dependents that the traversal reached.
C29_CountsAsComputed ==
  last.op = "analyze_file" =>
    LET r == last.ret
        whole == TransitiveSet(db, last.filepath, last.max_depth)
    IN /\ r.direct_dependents = Len(r.affected_files.direct)
       /\ r.co_changed_files = Len(r.affected_files.co_changed)
       /\ r.transitive_dependents = Cardinality(whole)
       /\ r.transitive_dependents
            = Cardinality(r.affected_files.transitive)
              + Cardinality(whole \cap SeqToSet(r.affected_files.direct))

\* b and c import a, c imports b, max_depth 3: transitive_dependents is 2 and
\* the transitive list is empty.
C29_Witness ==
  /\ last.op = "analyze_file"
  /\ last.filepath = "a"
  /\ last.max_depth = 3
  /\ last.ret.affected_files.direct = <<"c", "b">>
  /\ last.ret.transitive_dependents = 2
  /\ last.ret.affected_files.transitive = {}

\* ----------------------------------------------------------------------- C28

\* The lists of the co-change claim: no path twice.
CoChangeLists == {fl \in FileLists : Distinct(fl)}

\* A store written by add_co_changes calls only.
NextCoChanges == \E fl \in CoChangeLists : AddCoChanges(fl)

SpecCoChanges == Init /\ [][NextCoChanges]_vars

\* The number of add_co_changes calls so far whose list held both a and b.
CallsWithBoth(a, b) == sent[<<a, b, "co_changes">>] + sent[<<b, a, "co_changes">>]

\* C28: after any sequence of add_co_changes calls,
\* get_frequently_changed_together(a) has at most one row for b, and its weight
\* is the number of calls whose list held both a and b, whatever their order in
\* the lists.
C28_OneSymmetricEdge ==
  \A a \in WritePaths : \A b \in WritePaths \ {a} :
    \A rows \in get_frequently_changed_together(db, a, DefaultLimit) :
      LET hits == {i \in DOMAIN rows : rows[i].path = b}
      IN /\ Cardinality(hits) <= 1
         /\ CallsWithBoth(a, b) > 0 =>
              \E i \in hits : rows[i].weight = CallsWithBoth(a, b)

\* ------------------------------------------------------- writes that can fail

\* The write calls again, now with a storage failure possible at any statement.
\* Each upsert is one INSERT ... ON CONFLICT followed by conn.commit(); graph.py
\* has no try, no rollback and no loop around them, so the sqlite3 exception
\* leaves the call as it is raised and what was committed before it stays.
MaxFaultCalls == 2

\* Paths passed in SpecFaults, the empty string among them.
FaultPaths == {"", "a", "b"}

\* File lists passed to add_co_changes in SpecFaults.
FaultLists == {<<"a", "b">>, <<"b", "a">>, <<"a", "b", "c">>}

\* The edge upsert of add_edge alone, on the ids add_file returned.
EdgeUpsert(d, from_id, to_id, relationship, weight, metadata) ==
  LET rowid == d.edge_seq + 1
      hit == EdgeRows(d, from_id, to_id, relationship)
      edges2 == IF hit = {}
                THEN d.edges \cup {[id |-> rowid, from_file_id |-> from_id,
                                    to_file_id |-> to_id, relationship |-> relationship,
                                    weight |-> weight, metadata |-> metadata]}
                ELSE {IF e \in hit
                      THEN [e EXCEPT !.weight = e.weight + weight,
                                     !.metadata = Coalesce(metadata, e.metadata)]
                      ELSE e : e \in d.edges}
  IN [d EXCEPT !.edges = edges2, !.edge_seq = rowid]

\* The upserts a call makes, in order: add_file makes one, add_edge three (both
\* endpoints, then the edge), add_co_changes those of add_edge for each pair.
FileUnits(filepath, file_type) ==
  <<[kind |-> "file", path |-> filepath, type |-> file_type]>>

EdgeUnits(from_file, to_file, relationship, weight, metadata) ==
  FileUnits(from_file, NULL) \o FileUnits(to_file, NULL)
  \o <<[kind |-> "edge", from |-> from_file, to |-> to_file,
        relationship |-> relationship, weight |-> weight, metadata |-> metadata]>>

RECURSIVE PairUnits(_)
PairUnits(pairs) ==
  IF pairs = <<>> THEN <<>>
  ELSE EdgeUnits(pairs[1][1], pairs[1][2], "co_changes", 1, NULL) \o PairUnits(Tail(pairs))

CoChangeUnits(files) == PairUnits(CoChangePairs(files))

\* One upsert with its commit.
ApplyUnit(d, u) ==
  IF u.kind = "file"
  THEN add_file(d, u.path, u.type).db
  ELSE EdgeUpsert(d, FileId(d, u.from), FileId(d, u.to), u.relationship, u.weight,
                  u.metadata)

\* The first n upserts of a call.
RECURSIVE RunUnits(_, _, _)
RunUnits(d, units, n) ==
  IF n = 0 \/ units = <<>> THEN d
  ELSE RunUnits(ApplyUnit(d, Head(units)), Tail(units), n - 1)

\* Where the storage fails during a call: nowhere, or at upsert `at`, either in
\* execute (the upsert leaves nothing) or in commit (kept: the row stays in the
\* open transaction, which this connection reads and its next commit stores).
NoFault == [at |-> 0, kept |-> FALSE]
Faults(units) == {NoFault} \cup [at : 1..Len(units), kept : BOOLEAN]

\* The store after the call and how the call ended.  No except clause is between
\* the sqlite3 call and the caller, so the caller gets the sqlite3 exception.
RunCall(d, units, fault) ==
  IF fault.at = 0
  THEN [db |-> RunUnits(d, units, Len(units)), outcome |-> "returned"]
  ELSE [db |-> RunUnits(d, units, IF fault.kept THEN fault.at ELSE fault.at - 1),
        outcome |-> "sqlite3.Error"]

FaultAddFile(filepath, file_type, fault) ==
  /\ nwrites < MaxFaultCalls
  /\ LET r == RunCall(db, FileUnits(filepath, file_type), fault)
     IN /\ db' = r.db
        /\ last' = [op |-> "add_file", paths |-> {filepath}, fault |-> fault,
                    outcome |-> r.outcome]
  /\ nwrites' = nwrites + 1
  /\ UNCHANGED <<sent, hist, bfsVars>>

FaultAddEdge(from_file, to_file, relationship, weight, metadata, fault) ==
  /\ nwrites < MaxFaultCalls
  /\ LET r == RunCall(db, EdgeUnits(from_file, to_file, relationship, weight, metadata),
                      fault)
     IN /\ db' = r.db
        /\ last' = [op |-> "add_edge", paths |-> {from_file, to_file}, fault |-> fault,
                    outcome |-> r.outcome]
  /\ nwrites' = nwrites + 1
  /\ UNCHANGED <<sent, hist, bfsVars>>

FaultAddCoChanges(files, fault) ==
  /\ nwrites < MaxFaultCalls
  /\ LET r == RunCall(db, CoChangeUnits(files), fault)
     IN /\ db' = r.db
        /\ last' = [op |-> "add_co_changes", paths |-> SeqToSet(files), fault |-> fault,
                    outcome |-> r.outcome]
  /\ nwrites' = nwrites + 1
  /\ UNCHANGED <<sent, hist, bfsVars>>

NextFaults ==
  \/ \E p \in FaultPaths, ft \in {NULL, "py"} :
       \E fault \in Faults(FileUnits(p, ft)) : FaultAddFile(p, ft, fault)
  \/ \E p \in FaultPaths, q \in FaultPaths :
       \E fault \in Faults(EdgeUnits(p, q, "imports", 1, NULL)) :
         FaultAddEdge(p, q, "imports", 1, NULL, fault)
  \/ \E fl \in FaultLists :
       \E fault \in Faults(CoChangeUnits(fl)) : FaultAddCoChanges(fl, fault)

SpecFaults == Init /\ [][NextFaults]_vars

\* The rows of the store without the rowid counters.
Rows(d) == [files |-> d.files, edges |-> d.edges]

\* ----------------------------------------------------------------------- C25

\* C25: a write call in which the storage fails ends in a GraphError; the call
\* does not try the failed statement again.
C25_FailureIsGraphError ==
  (last.op \in {"add_file", "add_edge", "add_co_changes"} /\ last.fault.at > 0)
    => last.outcome = "GraphError"

\* ----------------------------------------------------------------------- C26

\* C26: a write call given an empty path ends in a validation error and leaves
\* the store as it was, so no file row ever has the path "".
C26_EmptyPathRejected ==
  /\ \A f \in db.files : f.path # ""
  /\ (last.op \in {"add_file", "add_edge"} /\ "" \in last.paths)
       => last.outcome = "ValidationError"

\* ----------------------------------------------------------------------- C30

C30_Step ==
  (last'.op = "add_co_changes" /\ nwrites' = nwrites + 1 /\ last'.outcome # "returned")
    => Rows(db') = Rows(db)

\* C30: an add_co_changes call that fails leaves the files and edges as they
\* were before the call: either every pair of the list is stored or none.
C30_AllOrNothing == [][C30_Step]_vars

\* -------------------------------------------------------- concurrent writers

\* Two FileGraph objects on one database file, each in its own process with its
\* own connection, call add_edge on the same triple.  A call is eight
\* statements; the processes interleave between statements.  SQLite lets one
\* connection write at a time: the INSERT takes the write lock, commit releases
\* it, and an INSERT that finds the lock taken waits and, after the connection's
\* timeout, raises sqlite3.OperationalError.
Writers == {1, 2}
MaxRaceCalls == 1
RaceFrom == "a"
RaceTo == "b"
RaceRel == "imports"
RaceTriple == <<RaceFrom, RaceTo, RaceRel>>

\* A writer outside a call.  open says that the writer's connection has an
\* uncommitted INSERT, pending is the store with it; completed is the sum of the
\* weights of its calls that returned, failed the number that raised.
IdleWriter ==
  [pc |-> "idle", calls |-> 0, weight |-> 0, from_id |-> 0, to_id |-> 0,
   pending |-> EmptyDb, open |-> FALSE, completed |-> 0, failed |-> 0]

\* The write lock is free for writer i when every other connection has no open
\* transaction.
CanWrite_no_lock(st, i) == TRUE

CanWrite(st, i) == \A j \in Writers \ {i} : ~st.w[j].open

ExecutePcs == {"file_from", "file_to", "edge"}
CommitPcs == {"commit_from", "commit_to", "commit_edge"}
SelectPcs == {"id_from", "id_to"}

\* add_edge is entered with a weight.
RaceBeginOp(st, i, weight) ==
  [st EXCEPT !.w[i].pc = "file_from", !.w[i].weight = weight, !.w[i].calls = @ + 1]

\* conn.execute(INSERT ...): of add_file(from_file), of add_file(to_file), of
\* the edge upsert.  It runs on the committed store and stays uncommitted.
RaceExecuteOp(st, i) ==
  LET wr == st.w[i]
  IN CASE wr.pc = "file_from" ->
            [st EXCEPT !.w[i].pending = add_file(st.db, RaceFrom, NULL).db,
                       !.w[i].open = TRUE, !.w[i].pc = "commit_from"]
       [] wr.pc = "file_to" ->
            [st EXCEPT !.w[i].pending = add_file(st.db, RaceTo, NULL).db,
                       !.w[i].open = TRUE, !.w[i].pc = "commit_to"]
       [] wr.pc = "edge" ->
            [st EXCEPT !.w[i].pending =
                          EdgeUpsert(st.db, wr.from_id, wr.to_id, RaceRel, wr.weight, NULL),
                       !.w[i].open = TRUE, !.w[i].pc = "commit_edge"]

\* conn.commit(); the one after the edge upsert is the last statement of add_edge.
RaceCommitOp(st, i) ==
  LET wr == st.w[i]
  IN CASE wr.pc = "commit_from" ->
            [st EXCEPT !.db = wr.pending, !.w[i].pending = EmptyDb, !.w[i].open = FALSE,
                       !.w[i].pc = "id_from"]
       [] wr.pc = "commit_to" ->
            [st EXCEPT !.db = wr.pending, !.w[i].pending = EmptyDb, !.w[i].open = FALSE,
                       !.w[i].pc = "id_to"]
       [] wr.pc = "commit_edge" ->
            [st EXCEPT !.db = wr.pending, !.w[i].pending = EmptyDb, !.w[i].open = FALSE,
                       !.w[i].pc = "idle", !.w[i].completed = @ + wr.weight]

\* SELECT id FROM files WHERE path = ? of add_file.
RaceSelectIdOp(st, i) ==
  IF st.w[i].pc = "id_from"
  THEN [st EXCEPT !.w[i].from_id = FileId(st.db, RaceFrom), !.w[i].pc = "file_to"]
  ELSE [st EXCEPT !.w[i].to_id = FileId(st.db, RaceTo), !.w[i].pc = "edge"]

\* The INSERT waited for the lock longer than the timeout: "database is locked"
\* leaves add_edge.
RaceTimeoutOp(st, i) ==
  [st EXCEPT !.w[i].pc = "idle", !.w[i].failed = @ + 1]

\* Every state one statement of one writer away.
RaceSuccessors(st) ==
  UNION {
    {RaceBeginOp(st, i, weight) : weight \in
       {x \in Weights : st.w[i].pc = "idle" /\ st.w[i].calls < MaxRaceCalls}}
    \cup (IF st.w[i].pc \in ExecutePcs /\ CanWrite(st, i) THEN {RaceExecuteOp(st, i)} ELSE {})
    \cup (IF st.w[i].pc \in ExecutePcs /\ ~CanWrite(st, i) THEN {RaceTimeoutOp(st, i)} ELSE {})
    \cup (IF st.w[i].pc \in CommitPcs THEN {RaceCommitOp(st, i)} ELSE {})
    \cup (IF st.w[i].pc \in SelectPcs THEN {RaceSelectIdOp(st, i)} ELSE {})
    : i \in Writers}

RECURSIVE ReachRace(_, _)
ReachRace(seen, frontier) ==
  IF frontier = {} THEN seen
  ELSE LET next == (UNION {RaceSuccessors(st) : st \in frontier}) \ seen
       IN ReachRace(seen \cup next, next)

\* The committed store and the writers, as one value.
RaceState == [db |-> db, w |-> call.w, base |-> call.base]

SetRaceState(st, op, i) ==
  /\ db' = st.db
  /\ call' = [w |-> st.w, base |-> st.base]
  /\ last' = [op |-> op, writer |-> i]
  /\ UNCHANGED <<sent, nwrites, hist, pc, queue, visited, layers, expanded, td_ret, br_ret>>

RaceBegin(i, weight) ==
  /\ call.w[i].pc = "idle"
  /\ call.w[i].calls < MaxRaceCalls
  /\ SetRaceState(RaceBeginOp(RaceState, i, weight), "begin", i)

RaceExecute(i) ==
  /\ call.w[i].pc \in ExecutePcs
  /\ CanWrite(RaceState, i)
  /\ SetRaceState(RaceExecuteOp(RaceState, i), "execute", i)

RaceTimeout(i) ==
  /\ call.w[i].pc \in ExecutePcs
  /\ ~CanWrite(RaceState, i)
  /\ SetRaceState(RaceTimeoutOp(RaceState, i), "timeout", i)

RaceCommit(i) ==
  /\ call.w[i].pc \in CommitPcs
  /\ SetRaceState(RaceCommitOp(RaceState, i), "commit", i)

RaceSelectId(i) ==
  /\ call.w[i].pc \in SelectPcs
  /\ SetRaceState(RaceSelectIdOp(RaceState, i), "select", i)

\* The stored weight of the triple in a store.
StoredWeight(d) == WeightOf(d, RaceTriple)

\* The store the writers start on: empty, or holding the triple already.
InitRace ==
  /\ db \in {EmptyDb} \cup {add_edge(EmptyDb, RaceFrom, RaceTo, RaceRel, wt, NULL) : wt \in Weights}
  /\ call = [w |-> [i \in Writers |-> IdleWriter], base |-> StoredWeight(db)]
  /\ sent = [t \in Triples |-> 0]
  /\ nwrites = 0
  /\ hist = NoHist
  /\ last = [op |-> "init"]
  /\ BfsIdle

NextRace ==
  \/ \E i \in Writers, weight \in Weights : RaceBegin(i, weight)
  \/ \E i \in Writers : RaceExecute(i)
  \/ \E i \in Writers : RaceTimeout(i)
  \/ \E i \in Writers : RaceCommit(i)
  \/ \E i \in Writers : RaceSelectId(i)

SpecRace == InitRace /\ [][NextRace]_vars

\* ----------------------------------------------------------------------- C27

RECURSIVE SumCompleted(_, _)
SumCompleted(st, ws) ==
  IF ws = {} THEN 0
  ELSE LET i == CHOOSE x \in ws : TRUE
       IN st.w[i].completed + SumCompleted(st, ws \ {i})

\* The stored weight is below what the completed calls added to the start weight.
LostUpdate(st) == StoredWeight(st.db) < st.base + SumCompleted(st, Writers)

\* C27: with two writers in add_edge on one triple there is an interleaving
\* after which the stored weight is smaller than the sum of the weights of the
\* completed calls.
C27_LostUpdatePossible ==
  \E st \in ReachRace({RaceState}, {RaceState}) : LostUpdate(st)

\* C27 as the code has it: under every interleaving the stored weight is the
\* start weight plus the weights of the calls that returned; a call that finds
\* the database locked waits or raises and adds nothing.
C27_NoLostUpdate ==
  StoredWeight(db) = call.base + SumCompleted(RaceState, Writers)

\* Both writers' calls ran interleaved and returned: the second INSERT found the
\* row of the first and added its weight.
C27_Witness ==
  /\ call.w[1].completed = 2
  /\ call.w[2].completed = 1
  /\ call.w[1].failed = 0
  /\ call.w[2].failed = 0
  /\ call.base = 0
  /\ StoredWeight(db) = 3

\* Writer 2 is at its edge INSERT while writer 1 holds the uncommitted edge row.
C27_RaceWitness ==
  /\ call.w[1].pc = "commit_edge"
  /\ call.w[2].pc = "edge"

\* ---------------------------------------------------------- PatternDetector

\* A CommitRecord here is [h, f, t]: h the hash, f the fields of the
\* comma-joined file list as f.split(",") gives them (one empty field for the
\* empty string), t the timestamp string.  The detector is built with the batch
\* and, optionally, a graph; both are in `call`.
MaxCommits == 3
MaxTopN == 2
MaxMinChanges == 3

\* str.strip() on the fields that occur.
Strip(field) ==
  CASE field = " a " -> "a"
    [] field = " " -> ""
    [] OTHER -> field

\* files = [f.strip() for f in commit.f.split(",") if f.strip()]
RECURSIVE ParseFiles(_)
ParseFiles(f) ==
  IF f = <<>> THEN <<>>
  ELSE (IF Strip(Head(f)) # "" THEN <<Strip(Head(f))>> ELSE <<>>) \o ParseFiles(Tail(f))

\* The parsed file lists of all commits, one after the other.
RECURSIVE AllFiles(_)
AllFiles(commits) ==
  IF commits = <<>> THEN <<>>
  ELSE ParseFiles(Head(commits).f) \o AllFiles(Tail(commits))

\* The keys of a dict or Counter filled from the sequence, in insertion order.
RECURSIVE KeysInOrder(_)
KeysInOrder(seq) ==
  IF seq = <<>> THEN <<>>
  ELSE LET init == KeysInOrder(SubSeq(seq, 1, Len(seq) - 1))
           x == seq[Len(seq)]
       IN IF \E i \in DOMAIN init : init[i] = x THEN init ELSE Append(init, x)

CountIn(seq, x) == Cardinality({i \in DOMAIN seq : seq[i] = x})

\* Where x goes in a list sorted by key, largest first, so that it stays behind
\* the entries of equal key that came before it.
RECURSIVE InsertDesc(_, _)
InsertDesc(sorted, x) ==
  IF sorted = <<>> THEN <<x>>
  ELSE IF sorted[Len(sorted)][1] >= x[1] THEN Append(sorted, x)
  ELSE Append(InsertDesc(SubSeq(sorted, 1, Len(sorted) - 1), x), sorted[Len(sorted)])

\* sorted(items, key=..., reverse=True) and list.sort(key=..., reverse=True) on
\* <<key, value>> pairs: a stable sort, equal keys keep their order.
RECURSIVE SortedReverse(_)
SortedReverse(items) ==
  IF items = <<>> THEN <<>>
  ELSE InsertDesc(SortedReverse(SubSeq(items, 1, Len(items) - 1)), items[Len(items)])

\* Counter.most_common(n) for an integer n: heapq.nlargest(n, items, key=count),
\* which is sorted(items, key=count, reverse=True)[:n], and [] for n <= 0.
most_common(seq, n) ==
  LET keys == KeysInOrder(seq)
      all == SortedReverse([i \in DOMAIN keys |-> <<CountIn(seq, keys[i]), keys[i]>>])
  IN IF n <= 0 THEN <<>> ELSE SubSeq(all, 1, Min(n, Len(all)))

\* PatternDetector._categorize_hotspot: ratio = changes / total_commits (0 when
\* there are no commits), compared with 0.2, 0.1 and 0.05.  changes / total > 1/5
\* is changes * 5 > total for the integers that occur: the quotient rounds to the
\* double of the literal only when the two are equal.
categorize_hotspot(changes, total_commits) ==
  IF total_commits > 0 /\ changes * 5 > total_commits THEN "critical"
  ELSE IF total_commits > 0 /\ changes * 10 > total_commits THEN "high"
  ELSE IF total_commits > 0 /\ changes * 20 > total_commits THEN "medium"
  ELSE "low"

\* detect_hotspots with the files in first-occurrence order, not sorted by count.
detect_hotspots_unsorted(commits, top_n) ==
  LET seq == AllFiles(commits)
      keys == KeysInOrder(seq)
      top == IF top_n <= 0 THEN <<>> ELSE SubSeq(keys, 1, Min(top_n, Len(keys)))
  IN [i \in DOMAIN top |->
        [file |-> top[i], changes |-> CountIn(seq, top[i]),
         category |-> categorize_hotspot(CountIn(seq, top[i]), Len(commits))]]

\* PatternDetector.detect_hotspots
detect_hotspots(commits, top_n) ==
  LET top == most_common(AllFiles(commits), top_n)
  IN [i \in DOMAIN top |->
        [file |-> top[i][2], changes |-> top[i][1],
         category |-> categorize_hotspot(top[i][1], Len(commits))]]

\* The number of commits whose parsed file list is the one file.
RECURSIVE SoloChanges(_, _)
SoloChanges(commits, file) ==
  IF commits = <<>> THEN 0
  ELSE (IF ParseFiles(Head(commits).f) = <<file>> THEN 1 ELSE 0)
       + SoloChanges(Tail(commits), file)

\* solo_ratio > 0.7 as solo / total >= 0.7.
IsIsolated_ge(total, solo, min_changes) ==
  total >= min_changes /\ solo * 10 >= total * 7

\* The test of detect_isolated_files on one file: not total < min_changes, and
\* solo / total > 0.7 (solo * 10 > total * 7 in integers).
IsIsolated(total, solo, min_changes) ==
  total >= min_changes /\ solo * 10 > total * 7

RECURSIVE SelectIsolated(_, _, _)
SelectIsolated(commits, keys, min_changes) ==
  IF keys = <<>> THEN <<>>
  ELSE LET file == Head(keys)
           total == CountIn(AllFiles(commits), file)
           solo == SoloChanges(commits, file)
       IN (IF IsIsolated(total, solo, min_changes)
           THEN <<[file |-> file, total_changes |-> total, solo_changes |-> solo]>>
           ELSE <<>>)
          \o SelectIsolated(commits, Tail(keys), min_changes)

\* PatternDetector.detect_isolated_files, without solo_ratio (the rounded
\* quotient): the files in dict order that pass the test, sorted by
\* total_changes, largest first.
detect_isolated_files(commits, min_changes) ==
  LET picked == SelectIsolated(commits, KeysInOrder(AllFiles(commits)), min_changes)
      ranked == SortedReverse([i \in DOMAIN picked |-> <<picked[i].total_changes, picked[i]>>])
  IN [i \in DOMAIN ranked |-> ranked[i][2]]

\* filepath.split("/") on the file names that occur.
SplitPath(filepath) ==
  CASE filepath = "src/a.py" -> <<"src", "a.py">>
    [] filepath = "src/b.py" -> <<"src", "b.py">>
    [] filepath = "lib/z" -> <<"lib", "z">>
    [] OTHER -> <<filepath>>

\* The files that detect_modules files under a module: len(parts) > 1.
RECURSIVE ModuleFiles(_)
ModuleFiles(files) ==
  IF files = <<>> THEN <<>>
  ELSE (IF Len(SplitPath(Head(files))) > 1 THEN <<Head(files)>> ELSE <<>>)
       \o ModuleFiles(Tail(files))

\* Whether detect_modules goes on: `if not self.graph: return []`.  A FileGraph
\* object is true, None is false.
GraphGiven(graph) == graph

\* PatternDetector.detect_modules, without activity (changes / len(commits)).
detect_modules(commits, graph) ==
  IF ~GraphGiven(graph) THEN <<>>
  ELSE LET files == ModuleFiles(AllFiles(commits))
           mods == [i \in DOMAIN files |-> SplitPath(files[i])[1]]
           keys == KeysInOrder(mods)
           stats == [k \in DOMAIN keys |->
                       LET mine == {i \in DOMAIN files : mods[i] = keys[k]}
                       IN [module |-> keys[k],
                           files |-> Cardinality({files[i] : i \in mine}),
                           changes |-> Cardinality(mine)]]
           ranked == SortedReverse([k \in DOMAIN stats |-> <<stats[k].changes, stats[k]>>])
       IN [k \in DOMAIN ranked |-> ranked[k][2]]

\* The timestamp strings that occur.  key is the place of the string in the
\* order of str (what sorted(key=lambda c: c.t) compares); kind says what
\* datetime.fromisoformat(t.replace("Z", "+00:00")) does with it: "bad" raises,
\* "aware" gives a datetime with an offset, "naive" one without; hours is that
\* datetime in hours since 2024-01-01T00:00 (UTC for an aware one, wall clock
\* for a naive one); date is t[:10].
Timestamps ==
  {"", "2024-01-01T00:00:00Z", "2024-01-01T20:00:00-10:00", "2024-01-02T00:00:00Z",
   "2024-01-03T00:00:00", "2024-01-04T00:00:00Z", "2024-01-04T01:00:00Z",
   "2024-01-05T03:00:00+00:00", "not-a-date"}

TsInfo(t) ==
  CASE t = "" -> [key |-> 1, kind |-> "bad", hours |-> 0, date |-> ""]
    [] t = "2024-01-01T00:00:00Z" ->
         [key |-> 2, kind |-> "aware", hours |-> 0, date |-> "2024-01-01"]
    [] t = "2024-01-01T20:00:00-10:00" ->
         [key |-> 3, kind |-> "aware", hours |-> 30, date |-> "2024-01-01"]
    [] t = "2024-01-02T00:00:00Z" ->
         [key |-> 4, kind |-> "aware", hours |-> 24, date |-> "2024-01-02"]
    [] t = "2024-01-03T00:00:00" ->
         [key |-> 5, kind |-> "naive", hours |-> 48, date |-> "2024-01-03"]
    [] t = "2024-01-04T00:00:00Z" ->
         [key |-> 6, kind |-> "aware", hours |-> 72, date |-> "2024-01-04"]
    [] t = "2024-01-04T01:00:00Z" ->
         [key |-> 7, kind |-> "aware", hours |-> 73, date |-> "2024-01-04"]
    [] t = "2024-01-05T03:00:00+00:00" ->
         [key |-> 8, kind |-> "aware", hours |-> 99, date |-> "2024-01-05"]
    [] t = "not-a-date" -> [key |-> 9, kind |-> "bad", hours |-> 0, date |-> "not-a-date"]

\* timedelta(days=3) in hours.
CycleGapHours == 72

\* The sort key of detect_feature_cycles: key=lambda c: c.t, the string.
CycleSortKey(commit) == TsInfo(commit.t).key

\* sorted(self.commits, key=...): stable, smallest key first.
RECURSIVE InsertAsc(_, _)
InsertAsc(sorted, x) ==
  IF sorted = <<>> THEN <<x>>
  ELSE IF sorted[Len(sorted)][1] <= x[1] THEN Append(sorted, x)
  ELSE Append(InsertAsc(SubSeq(sorted, 1, Len(sorted) - 1), x), sorted[Len(sorted)])

RECURSIVE SortedAsc(_)
SortedAsc(items) ==
  IF items = <<>> THEN <<>>
  ELSE InsertAsc(SortedAsc(SubSeq(items, 1, Len(items) - 1)), items[Len(items)])

\* _summarize_cycle: the commit count and the dates of the first and the last
\* commit of the cycle (the message and file counts are left out).
summarize_cycle(commits) ==
  [start_date |-> TsInfo(commits[1].t).date,
   end_date |-> TsInfo(commits[Len(commits)].t).date,
   commits |-> Len(commits)]

\* The loop of detect_feature_cycles over the sorted commits.  acc holds cycles,
\* current_cycle and last_date (has_last is false while it is None); raised is
\* set when commit_date - last_date subtracts a naive and an aware datetime, which is
\* a TypeError outside the try.
RECURSIVE CycleLoop(_, _)
CycleLoop(commits, acc) ==
  IF commits = <<>> \/ acc.raised # NULL THEN acc
  ELSE LET commit == Head(commits)
           info == TsInfo(commit.t)
       IN IF info.kind = "bad" THEN CycleLoop(Tail(commits), acc)
          ELSE IF acc.has_last /\ acc.last_date.kind # info.kind
          THEN [acc EXCEPT !.raised = "TypeError"]
          ELSE LET gap == acc.has_last
                          /\ info.hours - acc.last_date.hours > CycleGapHours
                   closed == IF gap /\ acc.current_cycle # <<>>
                             THEN Append(acc.cycles, summarize_cycle(acc.current_cycle))
                             ELSE acc.cycles
                   current == IF gap THEN <<>> ELSE acc.current_cycle
               IN CycleLoop(Tail(commits),
                            [acc EXCEPT !.cycles = closed,
                                        !.current_cycle = Append(current, commit),
                                        !.has_last = TRUE,
                                        !.last_date = info])

\* PatternDetector.detect_feature_cycles: the list of cycle summaries, or the
\* exception that leaves the call.
detect_feature_cycles(commits) ==
  LET ordered == SortedAsc([i \in DOMAIN commits |-> <<CycleSortKey(commits[i]), commits[i]>>])
      acc == CycleLoop([i \in DOMAIN ordered |-> ordered[i][2]],
                       [cycles |-> <<>>, current_cycle |-> <<>>, has_last |-> FALSE,
                        last_date |-> TsInfo(""), raised |-> NULL])
  IN IF acc.raised # NULL THEN [raised |-> acc.raised, cycles |-> <<>>]
     ELSE [raised |-> NULL,
           cycles |-> IF acc.current_cycle # <<>>
                      THEN Append(acc.cycles, summarize_cycle(acc.current_cycle))
                      ELSE acc.cycles]

\* The batches the detector is built with.  A batch is up to MaxCommits commits
\* with file lists of every shape (empty, one file, several, blank and padded
\* fields, a file twice, files in directories), followed by nothing or by 7 or
\* 17 more commits of one kind, so that the totals 10 and 20 of the category
\* thresholds and the ratio 7 / 10 of the isolation threshold occur.
FileKinds ==
  {<<"">>, <<"a">>, <<"a", "b">>, <<"b", "c">>, <<" a ", " ", "b", "">>, <<"a", "a">>,
   <<"lib/z", "c">>, <<"src/a.py", "src/b.py", "lib/z">>}

PadCounts == {7, 17}

Pads ==
  {<<>>} \cup {[i \in 1..n |-> <<"">>] : n \in PadCounts} \cup {[i \in 1..7 |-> <<"a">>]}

FixedTimestamp == "2024-01-01T00:00:00Z"

FileBatches ==
  {[i \in 1..(Len(core) + Len(pad)) |->
      [h |-> i, f |-> IF i <= Len(core) THEN core[i] ELSE pad[i - Len(core)],
       t |-> FixedTimestamp]] :
     core \in UNION {[1..n -> FileKinds] : n \in 0..MaxCommits}, pad \in Pads}

TimeBatches ==
  {[i \in 1..Len(ts) |-> [h |-> i, f |-> <<"a">>, t |-> ts[i]]] :
     ts \in UNION {[1..n -> Timestamps] : n \in 0..MaxCommits}}

DefaultTopN == 10
TopNs == (-1..MaxTopN) \cup {DefaultTopN}
MinChanges == 1..MaxMinChanges

\* Each report is asked for once, of a detector just built; no method of the
\* detector writes to the graph or to the batch.
DetectHotspots(top_n) ==
  /\ last.op = "init"
  /\ last' = [op |-> "detect_hotspots", top_n |-> top_n,
              ret |-> detect_hotspots(call.commits, top_n)]
  /\ UNCHANGED <<storeVars, bfsVars>>

DetectIsolatedFiles(min_changes) ==
  /\ last.op = "init"
  /\ last' = [op |-> "detect_isolated_files", min_changes |-> min_changes,
              ret |-> detect_isolated_files(call.commits, min_changes)]
  /\ UNCHANGED <<storeVars, bfsVars>>

DetectModules ==
  /\ last.op = "init"
  /\ last' = [op |-> "detect_modules", ret |-> detect_modules(call.commits, call.graph)]
  /\ UNCHANGED <<storeVars, bfsVars>>

DetectFeatureCycles ==
  /\ last.op = "init"
  /\ last' = [op |-> "detect_feature_cycles", ret |-> detect_feature_cycles(call.commits)]
  /\ UNCHANGED <<storeVars, bfsVars>>

\* PatternDetector(commits, graph): graph is a FileGraph (TRUE) or None (FALSE).
\* The batches of up to MaxCommits commits come with and without a graph, the
\* longer ones and those with varied timestamps without.
InitPatterns ==
  /\ \/ \E commits \in FileBatches, graph \in BOOLEAN :
          /\ graph => Len(commits) <= MaxCommits
          /\ call = [commits |-> commits, graph |-> graph]
     \/ \E commits \in TimeBatches : call = [commits |-> commits, graph |-> FALSE]
  /\ db = EmptyDb
  /\ sent = [t \in Triples |-> 0]
  /\ nwrites = 0
  /\ hist = NoHist
  /\ last = [op |-> "init"]
  /\ BfsIdle

NextPatterns ==
  \/ \E top_n \in TopNs : DetectHotspots(top_n)
  \/ \E min_changes \in MinChanges : DetectIsolatedFiles(min_changes)
  \/ DetectModules
  \/ DetectFeatureCycles

SpecPatterns == InitPatterns /\ [][NextPatterns]_vars

\* The files of a batch: every stripped, non-empty field of every commit.
Touched(commits) ==
  (UNION {{Strip(commits[i].f[j]) : j \in DOMAIN commits[i].f} : i \in DOMAIN commits})
  \ {""}

\* The occurrences of a file in the batch, as (commit, field) places.
Places(commits, file) ==
  UNION {{<<i, j>> : j \in {k \in DOMAIN commits[i].f : Strip(commits[i].f[k]) = file}} :
           i \in DOMAIN commits}

Occurrences(commits, file) == Cardinality(Places(commits, file))

\* Place x comes before place y in the batch.
PlaceBefore(x, y) == x[1] < y[1] \/ (x[1] = y[1] /\ x[2] < y[2])

\* The place where a file occurs first.
FirstPlace(commits, file) ==
  CHOOSE p \in Places(commits, file) :
    \A q \in Places(commits, file) : p = q \/ PlaceBefore(p, q)

CategoryOf(count, total) ==
  IF count * 5 > total THEN "critical"
  ELSE IF count * 10 > total THEN "high"
  ELSE IF count * 20 > total THEN "medium"
  ELSE "low"

\* ----------------------------------------------------------------------- C21

\* C21: detect_hotspots(top_n) returns at most top_n entries, one per file, in
\* non-increasing count order; a count is the file's number of occurrences over
\* all commits' file lists; no omitted file has a larger count than a returned
\* one, and among equal counts the file that occurs first comes first (and is
\* the one returned); the category is critical above 0.2 of the commits, high
\* above 0.1, medium above 0.05, else low.
C21_Hotspots ==
  last.op = "detect_hotspots" =>
    LET ret == last.ret
        commits == call.commits
        files == Touched(commits)
        returned == {ret[i].file : i \in DOMAIN ret}
        occ == [x \in files |-> Occurrences(commits, x)]
        first == [x \in files |-> FirstPlace(commits, x)]
        limit == IF last.top_n < 0 THEN 0 ELSE last.top_n
    IN /\ Len(ret) <= limit
       /\ Len(ret) = Min(limit, Cardinality(files))
       /\ returned \subseteq files
       /\ Cardinality(returned) = Len(ret)
       /\ \A i \in DOMAIN ret :
            /\ ret[i].changes = occ[ret[i].file]
            /\ ret[i].category = CategoryOf(ret[i].changes, Len(commits))
       /\ \A i \in DOMAIN ret : \A j \in DOMAIN ret :
            i < j => /\ ret[i].changes >= ret[j].changes
                     /\ ret[i].changes = ret[j].changes
                          => PlaceBefore(first[ret[i].file], first[ret[j].file])
       /\ \A x \in files \ returned : \A i \in DOMAIN ret :
            /\ occ[x] <= ret[i].changes
            /\ occ[x] = ret[i].changes => PlaceBefore(first[ret[i].file], first[x])

\* Commits a,b / a / b,c: a 2, b 2, c 1, in that order.
C21_Witness ==
  /\ last.op = "detect_hotspots"
  /\ Len(call.commits) = 3
  /\ call.commits[1].f = <<"a", "b">>
  /\ call.commits[2].f = <<"a">>
  /\ call.commits[3].f = <<"b", "c">>
  /\ last.top_n = DefaultTopN
  /\ [i \in DOMAIN last.ret |-> <<last.ret[i].file, last.ret[i].changes>>]
       = <<<<"a", 2>>, <<"b", 2>>, <<"c", 1>>>>

\* A file in 3 of 10 commits is critical, one in 2 of 10 is high and one in 1 of
\* 10 is medium.
C21_CategoryWitness ==
  /\ last.op = "detect_hotspots"
  /\ Len(call.commits) = 10
  /\ \E i \in DOMAIN last.ret : last.ret[i].changes = 3 /\ last.ret[i].category = "critical"
  /\ \E i \in DOMAIN last.ret : last.ret[i].changes = 2 /\ last.ret[i].category = "high"
  /\ \E i \in DOMAIN last.ret : last.ret[i].changes = 1 /\ last.ret[i].category = "medium"

\* A file in 1 of 20 commits is low.
C21_LowWitness ==
  /\ last.op = "detect_hotspots"
  /\ Len(call.commits) = 20
  /\ \E i \in DOMAIN last.ret : last.ret[i].changes = 1 /\ last.ret[i].category = "low"

\* ----------------------------------------------------------------------- C22

\* The commits whose file list is the one file and nothing else.
SoloCommits(commits, file) ==
  {i \in DOMAIN commits : ParseFiles(commits[i].f) = <<file>>}

\* C22: detect_isolated_files(min_changes) returns a file exactly when its
\* total changes are at least min_changes and more than 0.7 of them are commits
\* of that file alone; the entries carry those two counts and are in
\* non-increasing total_changes order.
C22_Isolated ==
  last.op = "detect_isolated_files" =>
    LET ret == last.ret
        commits == call.commits
        returned == {ret[i].file : i \in DOMAIN ret}
    IN /\ returned =
            {x \in Touched(commits) :
               /\ Occurrences(commits, x) >= last.min_changes
               /\ 10 * Cardinality(SoloCommits(commits, x)) > 7 * Occurrences(commits, x)}
       /\ Cardinality(returned) = Len(ret)
       /\ \A i \in DOMAIN ret :
            /\ ret[i].total_changes = Occurrences(commits, ret[i].file)
            /\ ret[i].solo_changes = Cardinality(SoloCommits(commits, ret[i].file))
       /\ \A i \in DOMAIN ret : \A j \in DOMAIN ret :
            i < j => ret[i].total_changes >= ret[j].total_changes

\* min_changes 2, three commits of a alone: a is returned with total 3, solo 3.
C22_Witness ==
  /\ last.op = "detect_isolated_files"
  /\ last.min_changes = 2
  /\ Len(call.commits) = 3
  /\ last.ret = <<[file |-> "a", total_changes |-> 3, solo_changes |-> 3]>>

\* min_changes 2, a with total 3 and solo 2: not returned.
C22_NotReturnedWitness ==
  /\ last.op = "detect_isolated_files"
  /\ last.min_changes = 2
  /\ Occurrences(call.commits, "a") = 3
  /\ Cardinality(SoloCommits(call.commits, "a")) = 2
  /\ \A i \in DOMAIN last.ret : last.ret[i].file # "a"

\* total 10 and solo 7, a ratio of exactly 0.7: not returned.
C22_BoundaryWitness ==
  /\ last.op = "detect_isolated_files"
  /\ Occurrences(call.commits, "a") = 10
  /\ Cardinality(SoloCommits(call.commits, "a")) = 7
  /\ \A i \in DOMAIN last.ret : last.ret[i].file # "a"

\* ----------------------------------------------------------------------- C23

\* The files of the batch whose first path segment is the module.
FilesOfModule(commits, module) ==
  {x \in Touched(commits) : SplitPath(x)[1] = module}

RECURSIVE SumOccurrences(_, _)
SumOccurrences(commits, files) ==
  IF files = {} THEN 0
  ELSE LET x == CHOOSE y \in files : TRUE
       IN Occurrences(commits, x) + SumOccurrences(commits, files \ {x})

\* C23: detect_modules groups every file of every commit by its first path
\* segment: one entry per first segment that occurs, files the number of
\* distinct files of the group, changes their occurrences, in non-increasing
\* changes order, whether or not a graph was given to the detector.
C23_Modules ==
  last.op = "detect_modules" =>
    LET ret == last.ret
        commits == call.commits
        returned == {ret[i].module : i \in DOMAIN ret}
    IN /\ returned = {SplitPath(x)[1] : x \in Touched(commits)}
       /\ Cardinality(returned) = Len(ret)
       /\ \A i \in DOMAIN ret :
            /\ ret[i].files = Cardinality(FilesOfModule(commits, ret[i].module))
            /\ ret[i].changes = SumOccurrences(commits, FilesOfModule(commits, ret[i].module))
       /\ \A i \in DOMAIN ret : \A j \in DOMAIN ret :
            i < j => ret[i].changes >= ret[j].changes

\* What the code returns: nothing without a graph, and with one the groups of
\* the files that have a "/" in their path.
C23_ModulesAsComputed ==
  last.op = "detect_modules" =>
    LET ret == last.ret
        commits == call.commits
        returned == {ret[i].module : i \in DOMAIN ret}
        nested == {x \in Touched(commits) : Len(SplitPath(x)) > 1}
    IN /\ ~call.graph => ret = <<>>
       /\ call.graph =>
            /\ returned = {SplitPath(x)[1] : x \in nested}
            /\ Cardinality(returned) = Len(ret)
            /\ \A i \in DOMAIN ret :
                 /\ ret[i].files = Cardinality(FilesOfModule(commits, ret[i].module) \cap nested)
                 /\ ret[i].changes =
                      SumOccurrences(commits, FilesOfModule(commits, ret[i].module) \cap nested)
            /\ \A i \in DOMAIN ret : \A j \in DOMAIN ret :
                 i < j => ret[i].changes >= ret[j].changes

\* ----------------------------------------------------------------------- C24

\* The commits of a batch whose timestamp parses, earliest first.
Parsable(commits) ==
  LET ok == SelectSeq(commits, LAMBDA c : TsInfo(c.t).kind # "bad")
      ranked == SortedAsc([i \in DOMAIN ok |-> <<TsInfo(ok[i].t).hours, ok[i]>>])
  IN [i \in DOMAIN ranked |-> ranked[i][2]]

\* The sizes of the cycles of a chronological list: a commit opens a cycle when
\* it is more than three days after the one before it.
RECURSIVE CycleSizes(_, _)
CycleSizes(chrono, sizes) ==
  IF chrono = <<>> THEN sizes
  ELSE LET n == Len(chrono)
           init == SubSeq(chrono, 1, n - 1)
           before == CycleSizes(init, sizes)
       IN IF n = 1 THEN <<1>>
          ELSE IF TsInfo(chrono[n].t).hours - TsInfo(chrono[n - 1].t).hours > CycleGapHours
          THEN Append(before, 1)
          ELSE [before EXCEPT ![Len(before)] = @ + 1]

\* C24: detect_feature_cycles returns, for the commits with parsable
\* timestamps taken in chronological order, the consecutive cycles that a gap
\* of more than 3 days separates; commits with unparsable timestamps are in no
\* cycle, and the call returns.
C24_Cycles ==
  last.op = "detect_feature_cycles" =>
    /\ last.ret.raised = NULL
    /\ [i \in DOMAIN last.ret.cycles |-> last.ret.cycles[i].commits]
         = CycleSizes(Parsable(call.commits), <<>>)

\* The call returned cycles that are not those of the chronological order: the
\* commits of 2024-01-01T20:00-10:00 (06:00 UTC of the next day),
\* 2024-01-02T00:00Z and 2024-01-05T03:00Z lie within three days of each other
\* in time order and come back as two cycles, of 2 and of 1 commits.
C24_StringOrderCase ==
  /\ last.op = "detect_feature_cycles"
  /\ last.ret.raised = NULL
  /\ [i \in DOMAIN call.commits |-> call.commits[i].t]
       = <<"2024-01-01T20:00:00-10:00", "2024-01-02T00:00:00Z", "2024-01-05T03:00:00+00:00">>
  /\ [i \in DOMAIN last.ret.cycles |-> last.ret.cycles[i].commits] = <<2, 1>>
  /\ CycleSizes(Parsable(call.commits), <<>>) = <<3>>

\* The call raised on a batch whose timestamps all parse, one without offset.
C24_TypeErrorCase ==
  /\ last.op = "detect_feature_cycles"
  /\ last.ret.raised = "TypeError"
  /\ \A i \in DOMAIN call.commits : TsInfo(call.commits[i].t).kind # "bad"

====
